---- MODULE Spec2Model ----
(***************************************************************************)
(* Displaced-mesh coupling layer (framework/src/problems/DisplacedProblem.C *)
(* and framework/include/base/CoupledProblem.h).                            *)
(*                                                                          *)
(* Coordinates and nodal values are integers: one unit is a tenth of a     *)
(* mesh spacing, so the reference mesh {0,1,2} is {0,10,20} and the field  *)
(* {0,0.1,0.2} is {0,1,2}.                                                  *)
(***************************************************************************)
EXTENDS Integers, Sequences, FiniteSets, TLC

\* ------------------------------------------------------------------ bounds
NumNodes == 2
MaxVal == 1
NumThreads == 2
MaxClock == 1

Nodes == 1..NumNodes
Values == 0..MaxVal
\* The nonlinear system carries the displacement variable: one dof per node.
NlVectors == [Nodes -> Values]
\* The auxiliary system carries one dof.
AuxDofs == {"aux0"}
AuxVectors == [AuxDofs -> Values]

ZeroNl == [n \in Nodes |-> 0]
ZeroAux == [a \in AuxDofs |-> 0]

\* ------------------------------------------------------------------- state
VARIABLES
  mproblem,   \* the reference problem: current solutions of its two systems
  dp,         \* the DisplacedProblem object
  lastCall,   \* the entry point that returned last, with its arguments
  par,        \* the parallel_reduce in progress, if any
  tags,       \* the tag registries: the reference problem's, and the
              \* DisplacedProblem's own SubProblem members
  world,      \* variables of the displaced systems (systems) and the
              \* reference problem's identity state (mproblem)
  threads,    \* per-thread Assembly and FieldSystem state (th) and the
              \* Dirac point registry (dirac)
  coupled     \* the CoupledProblem object and the clock it refers to

vars == <<mproblem, dp, lastCall, par, tags, world, threads, coupled>>

\* What the mesh entry points leave alone, and what the others do.
nonMeshVars == <<tags, world, threads, coupled>>
meshVars == <<mproblem, dp, par>>

\* Coordinate of node n on the reference mesh (_ref_mesh).
reference_node(n) == 10 * (n - 1)

\* ------------------------------------------------- displaced FieldSystems
\* A fatal error ends the process: once d.fatal is set no later statement
\* of the call has an effect.
fatal_error(d, msg) == [d EXCEPT !.fatal = TRUE, !.log = Append(@, msg)]

\* NumericVector::size
size(v) == Cardinality(DOMAIN v)

\* (*_displaced_nl.sys().solution) = v: the assignment fails fatally when
\* v does not have the size of the system's DOF map.
nl_assign_solution(d, v) ==
  IF d.fatal THEN d
  ELSE IF size(v) # size(d.displaced_nl.solution)
       THEN fatal_error(d, "nl.solution= size mismatch")
       ELSE [d EXCEPT !.displaced_nl.solution = v,
                      !.log = Append(@, "nl.solution=")]

\* (*_displaced_aux.sys().solution) = v
aux_assign_solution(d, v) ==
  IF d.fatal THEN d
  ELSE IF size(v) # size(d.displaced_aux.solution)
       THEN fatal_error(d, "aux.solution= size mismatch")
       ELSE [d EXCEPT !.displaced_aux.solution = v,
                      !.log = Append(@, "aux.solution=")]

\* _displaced_nl.update(): the cached view is refreshed from the solution.
nl_update(d) ==
  IF d.fatal THEN d
  ELSE [d EXCEPT !.displaced_nl.current_local_solution = d.displaced_nl.solution,
                 !.log = Append(@, "nl.update")]

\* _displaced_aux.update()
aux_update(d) ==
  IF d.fatal THEN d
  ELSE [d EXCEPT !.displaced_aux.current_local_solution =
                     d.displaced_aux.solution,
                 !.log = Append(@, "aux.update")]

\* ------------------------------------------------------- mesh collaborators
\* Node distribution of a mesh: "distributed", "serial_on_zero" (all nodes on
\* process 0 only) or "serial" (replicated on every process).
Distributions == {"distributed", "serial_on_zero", "serial"}
is_serial(m) == m = "serial"
is_serial_on_zero(m) == m \in {"serial", "serial_on_zero"}
allgather(m) == "serial"
gather_to_zero(m) == IF m = "distributed" THEN "serial_on_zero" ELSE m

\* Nodes this process owns; the others are ghost / off-process nodes.
local_nodes == {n \in Nodes : n = 1}

\* NodeRange(_mesh.getMesh().nodes_begin(), _mesh.getMesh().nodes_end(), 1)
local_node_range == local_nodes
node_range == Nodes

\* The vector a solution pointer (_nl_solution, _aux_solution) refers to.
\* mem holds the vectors alive during the call.
deref_nl(ptr, mem) ==
  CASE ptr = "current" -> mem.current_nl
    [] ptr = "arg" -> mem.soln

\* UpdateDisplacedMeshThread::onNode: displaced = reference + offset, the
\* offset being the displacement variable's nodal value in *_nl_solution.
displace_node(d, mem, n) ==
  [d EXCEPT !.coord[n] = reference_node(n) + deref_nl(d.nl_solution, mem)[n]]

\* ResetDisplacedMeshThread::onNode: the reference coordinate is written.
undisplace_node(d, n) ==
  [d EXCEPT !.coord[n] = reference_node(n)]

\* A sequential pass of a per-node visitor over a set of nodes.
RECURSIVE displace_pass(_, _, _)
displace_pass(d, mem, range) ==
  IF range = {} THEN d
  ELSE LET n == CHOOSE x \in range : \A y \in range : x <= y
       IN displace_pass(displace_node(d, mem, n), mem, range \ {n})

RECURSIVE undisplace_pass(_, _)
undisplace_pass(d, range) ==
  IF range = {} THEN d
  ELSE LET n == CHOOSE x \in range : \A y \in range : x <= y
       IN undisplace_pass(undisplace_node(d, n), range \ {n})

\* Threads::parallel_reduce(node_range, udmt)
parallel_reduce_update(d, mem, range) ==
  IF d.fatal THEN d
  ELSE [displace_pass(d, mem, range) EXCEPT !.log = Append(@, "displace")]

\* Threads::parallel_reduce(node_range, rdmt)
parallel_reduce_reset(d, range) ==
  IF d.fatal THEN d
  ELSE [undisplace_pass(d, range) EXCEPT !.log = Append(@, "undisplace")]

\* _geometric_search_data.update(): the search structures are recomputed
\* from the node coordinates the displaced mesh has now.
geometric_search_update(d) ==
  IF d.fatal THEN d
  ELSE [d EXCEPT !.geometric_search_data = [built |-> TRUE, coord |-> d.coord],
                 !.log = Append(@, "gsd.update")]

\* _dirac_kernel_info.updatePointLocator(_mesh)
updatePointLocator(d) ==
  IF d.fatal THEN d
  ELSE [d EXCEPT !.point_locator = [built |-> TRUE, coord |-> d.coord],
                 !.log = Append(@, "updatePointLocator")]

\* _geometric_search_data.reinit(): the search structures are rebuilt in full
\* from the displaced mesh as it is now.
geometric_search_reinit(d) ==
  IF d.fatal THEN d
  ELSE [d EXCEPT !.geometric_search_data = [built |-> TRUE, coord |-> d.coord],
                 !.log = Append(@, "gsd.reinit")]

\* _eq.reinit() and _mesh.meshChanged(): bookkeeping of the equation systems
\* and of the mesh, no node moves.
eq_reinit(d) == IF d.fatal THEN d ELSE [d EXCEPT !.log = Append(@, "eq.reinit")]
mesh_meshChanged(d) ==
  IF d.fatal THEN d ELSE [d EXCEPT !.log = Append(@, "mesh.meshChanged")]

\* --------------------------------------------------------- DisplacedProblem
enter(d) == [d EXCEPT !.log = <<>>]

\* _nl_solution = nl; _aux_solution = aux
set_solution_pointers(d, nl, aux) ==
  IF d.fatal THEN d ELSE [d EXCEPT !.nl_solution = nl, !.aux_solution = aux]

\* DisplacedProblem::syncSolutions()
syncSolutions_update_first(d, mem) ==
  aux_assign_solution(nl_assign_solution(aux_update(nl_update(d)),
                                         mem.current_nl), mem.current_aux)
syncSolutions(d, mem) ==
  aux_update(nl_update(
    aux_assign_solution(nl_assign_solution(d, mem.current_nl), mem.current_aux)))

\* DisplacedProblem::syncSolutions(soln, aux_soln)
syncSolutions2_update_each(d, mem) ==
  aux_update(aux_assign_solution(
    nl_update(nl_assign_solution(d, mem.soln)), mem.aux_soln))
syncSolutions2_from_current(d, mem) ==
  aux_update(nl_update(
    aux_assign_solution(nl_assign_solution(d, mem.current_nl), mem.current_aux)))
syncSolutions2(d, mem) ==
  aux_update(nl_update(
    aux_assign_solution(nl_assign_solution(d, mem.soln), mem.aux_soln)))

\* The serialization repair of updateMesh().
\* The collectives a mesh can be asked for, as they appear in a call's log.
CollectiveEvents ==
  {"ref.allgather", "ref.gather_to_zero", "mesh.allgather", "mesh.gather_to_zero"}

\* The two tests of updateMesh(): is the displaced mesh gathered further
\* than the reference mesh.
needs_repair(d) ==
  \/ is_serial(d.mesh) /\ ~is_serial(d.ref_mesh)
  \/ is_serial_on_zero(d.mesh) /\ ~is_serial_on_zero(d.ref_mesh)

repair_serialization_unordered(d) ==
  IF d.fatal THEN d ELSE
  LET d1 == IF is_serial(d.mesh) /\ ~is_serial(d.ref_mesh)
            THEN [d EXCEPT !.ref_mesh = allgather(@),
                           !.log = Append(@, "ref.allgather")]
            ELSE d
  IN IF is_serial_on_zero(d.mesh) /\ ~is_serial_on_zero(d.ref_mesh)
     THEN [d1 EXCEPT !.ref_mesh = gather_to_zero(@),
                     !.log = Append(@, "ref.gather_to_zero")]
     ELSE d1
repair_serialization_displaced(d) ==
  IF d.fatal THEN d ELSE
  IF is_serial(d.ref_mesh) /\ ~is_serial(d.mesh)
  THEN [d EXCEPT !.mesh = allgather(@), !.log = Append(@, "mesh.allgather")]
  ELSE d
repair_serialization(d) ==
  IF d.fatal THEN d ELSE
  LET d1 == IF is_serial(d.mesh) /\ ~is_serial(d.ref_mesh)
            THEN [d EXCEPT !.ref_mesh = allgather(@),
                           !.log = Append(@, "ref.allgather")]
            ELSE d
  IN IF is_serial_on_zero(d1.mesh) /\ ~is_serial_on_zero(d1.ref_mesh)
     THEN [d1 EXCEPT !.ref_mesh = gather_to_zero(@),
                     !.log = Append(@, "ref.gather_to_zero")]
     ELSE d1

\* DisplacedProblem::updateMesh(), up to the construction of the visitor.
updateMesh_begin(d, mem) ==
  LET s1 == syncSolutions(d, mem)
      s2 == set_solution_pointers(s1, "current", "current")
  IN repair_serialization(s2)

\* DisplacedProblem::updateMesh(soln, aux_soln), up to the visitor.
updateMesh2_begin_current_pointers(d, mem) ==
  LET s1 == syncSolutions2(d, mem)
  IN set_solution_pointers(s1, "current", "current")
updateMesh2_begin(d, mem) ==
  LET s1 == syncSolutions2(d, mem)
  IN set_solution_pointers(s1, "arg", "arg")

\* Both forms of updateMesh, after parallel_reduce has returned.
updateMesh_end(d) == updatePointLocator(geometric_search_update(d))

\* DisplacedProblem::updateMesh()
updateMesh_search_first(d, mem) ==
  parallel_reduce_update(updateMesh_end(updateMesh_begin(d, mem)),
                         mem, node_range)
updateMesh(d, mem) ==
  updateMesh_end(parallel_reduce_update(updateMesh_begin(d, mem),
                                        mem, node_range))

\* DisplacedProblem::updateMesh(soln, aux_soln)
updateMesh2(d, mem) ==
  updateMesh_end(parallel_reduce_update(updateMesh2_begin(d, mem),
                                        mem, node_range))

\* DisplacedProblem::undisplaceMesh()
undisplaceMesh_local_only(d) == parallel_reduce_reset(d, local_node_range)
undisplaceMesh(d) == parallel_reduce_reset(d, node_range)

\* DisplacedProblem::meshChanged()
meshChanged_incremental(d) ==
  geometric_search_update(updatePointLocator(mesh_meshChanged(eq_reinit(d))))
meshChanged_keep_locator(d) ==
  geometric_search_reinit(mesh_meshChanged(eq_reinit(d)))
meshChanged(d) ==
  geometric_search_reinit(updatePointLocator(mesh_meshChanged(eq_reinit(d))))

\* ------------------------------------------------------------ tag registry
TagNames == {"TIME", "NONTIME", "SYSTEM"}
NoTag == -1

\* A registry is the sequence of names in order of creation: the tag with
\* ID i is the (i+1)-th name.
registry_id(reg, name) ==
  IF \E i \in 1..Len(reg) : reg[i] = name
  THEN (CHOOSE i \in 1..Len(reg) : reg[i] = name) - 1
  ELSE NoTag

\* SubProblem::addVectorTag / addMatrixTag: an existing name keeps its ID,
\* a new one gets the next ID.
registry_add(reg, name) ==
  IF registry_id(reg, name) # NoTag THEN reg ELSE Append(reg, name)

registry_name(reg, id) == IF id + 1 \in 1..Len(reg) THEN reg[id + 1] ELSE "?"
registry_exists(reg, id) == id + 1 \in 1..Len(reg)

\* The reference problem (_mproblem).
\* Adding a tag changes the registries (t) and returns the tag's ID (ret).
mproblem_addVectorTag(t, name) ==
  LET reg == registry_add(t.mproblem.vector, name)
  IN [t |-> [t EXCEPT !.mproblem.vector = reg], ret |-> registry_id(reg, name)]
mproblem_addMatrixTag(t, name) ==
  LET reg == registry_add(t.mproblem.matrix, name)
  IN [t |-> [t EXCEPT !.mproblem.matrix = reg], ret |-> registry_id(reg, name)]
mproblem_getVectorTagID(t, name) == registry_id(t.mproblem.vector, name)
mproblem_vectorTagName(t, id) == registry_name(t.mproblem.vector, id)
mproblem_vectorTagExists(t, id) == registry_exists(t.mproblem.vector, id)
mproblem_numVectorTags(t) == Len(t.mproblem.vector)
mproblem_getMatrixTagID(t, name) == registry_id(t.mproblem.matrix, name)
mproblem_matrixTagName(t, id) == registry_name(t.mproblem.matrix, id)
mproblem_matrixTagNameExists(t, name) ==
  registry_id(t.mproblem.matrix, name) # NoTag
mproblem_matrixTagExists(t, id) == registry_exists(t.mproblem.matrix, id)
mproblem_numMatrixTags(t) == Len(t.mproblem.matrix)

\* DisplacedProblem::addVectorTag
addVectorTag_own_registry(t, name) ==
  LET reg == registry_add(t.displaced.vector, name)
  IN [t |-> [t EXCEPT !.displaced.vector = reg], ret |-> registry_id(reg, name)]
addVectorTag(t, name) == mproblem_addVectorTag(t, name)

\* DisplacedProblem::getVectorTagID
getVectorTagID(t, name) == mproblem_getVectorTagID(t, name)

\* DisplacedProblem::vectorTagName
vectorTagName(t, id) == mproblem_vectorTagName(t, id)

\* DisplacedProblem::vectorTagExists
vectorTagExists(t, id) == mproblem_vectorTagExists(t, id)

\* DisplacedProblem::numVectorTags
numVectorTags(t) == mproblem_numVectorTags(t)

\* DisplacedProblem::addMatrixTag
addMatrixTag(t, name) == mproblem_addMatrixTag(t, name)

\* DisplacedProblem::getMatrixTagID
getMatrixTagID(t, name) == mproblem_getMatrixTagID(t, name)

\* DisplacedProblem::matrixTagName
matrixTagName(t, id) == mproblem_matrixTagName(t, id)

\* DisplacedProblem::matrixTagExists(const TagName &)
matrixTagNameExists(t, name) == mproblem_matrixTagNameExists(t, name)

\* DisplacedProblem::matrixTagExists(TagID)
matrixTagExists(t, id) == mproblem_matrixTagExists(t, id)

\* DisplacedProblem::numMatrixTags
numMatrixTags(t) == mproblem_numMatrixTags(t)

InitTags ==
  [mproblem |-> [vector |-> <<>>, matrix |-> <<>>],
   displaced |-> [vector |-> <<>>, matrix |-> <<>>]]

\* ------------------------------------------------ variables and identity
VarNames == {"u", "v"}
Subdomains == {"block0"}
CoordTypes == {"COORD_XYZ", "COORD_RZ"}
\* THREAD_ID: 0 .. libMesh::n_threads() - 1
Tids == 0..(NumThreads - 1)

mooseError(msg) == [error |-> msg]

\* SystemBase::hasVariable / hasScalarVariable: field variables and scalar
\* variables of one system.
sys_hasVariable(sys, name) == name \in sys.vars
sys_hasScalarVariable(sys, name) == name \in sys.scalars
sys_addVariable(sys, name) == [sys EXCEPT !.vars = @ \cup {name}]
sys_addScalarVariable(sys, name) == [sys EXCEPT !.scalars = @ \cup {name}]
\* SystemBase::getFieldVariable<T> / getScalarVariable / system(): the
\* thread's variable object of that system, or the system itself.
sys_getFieldVariable(sys, tid, name, type) ==
  [system |-> sys.name, var |-> name, tid |-> tid, type |-> type]
sys_getVariable(sys, tid, name) ==
  [system |-> sys.name, var |-> name, tid |-> tid, type |-> "FEBase"]
sys_getScalarVariable(sys, tid, name) ==
  [system |-> sys.name, var |-> name, tid |-> tid, type |-> "Scalar"]
sys_system(sys) == [system |-> sys.name]

\* DisplacedProblem::addVariable
addVariable(w, name) ==
  [w EXCEPT !.systems.displaced_nl = sys_addVariable(@, name)]

\* DisplacedProblem::addAuxVariable
addAuxVariable(w, name) ==
  [w EXCEPT !.systems.displaced_aux = sys_addVariable(@, name)]

\* DisplacedProblem::addScalarVariable
addScalarVariable(w, name) ==
  [w EXCEPT !.systems.displaced_nl = sys_addScalarVariable(@, name)]

\* DisplacedProblem::addAuxScalarVariable
addAuxScalarVariable(w, name) ==
  [w EXCEPT !.systems.displaced_aux = sys_addScalarVariable(@, name)]

\* FEProblemBase::hasVariable, isTransient, getCoordSystem, converged of
\* the reference problem.
mproblem_hasVariable(w, name) == name \in w.mproblem.vars
mproblem_isTransient(w) == w.mproblem.transient
mproblem_getCoordSystem(w, sid) == w.mproblem.coord_sys[sid]
mproblem_converged(w) == w.mproblem.converged

\* DisplacedProblem::hasVariable
hasVariable_delegating(w, name) == mproblem_hasVariable(w, name)
hasVariable(w, name) ==
  IF sys_hasVariable(w.systems.displaced_nl, name) THEN TRUE
  ELSE IF sys_hasVariable(w.systems.displaced_aux, name) THEN TRUE
  ELSE FALSE

\* DisplacedProblem::hasScalarVariable
hasScalarVariable(w, name) ==
  IF sys_hasScalarVariable(w.systems.displaced_nl, name) THEN TRUE
  ELSE IF sys_hasScalarVariable(w.systems.displaced_aux, name) THEN TRUE
  ELSE FALSE

\* DisplacedProblem::isTransient
isTransient(w) == mproblem_isTransient(w)

\* DisplacedProblem::getCoordSystem
getCoordSystem(w, sid) == mproblem_getCoordSystem(w, sid)

\* DisplacedProblem::converged
converged(w) == mproblem_converged(w)

\* SubProblem::getVariableHelper: the nonlinear system is searched first,
\* then the auxiliary system.
getVariableHelper(tid, name, nl, aux) ==
  IF sys_hasVariable(nl, name) THEN sys_getVariable(nl, tid, name)
  ELSE IF sys_hasVariable(aux, name) THEN sys_getVariable(aux, tid, name)
  ELSE mooseError("Unknown variable")

\* DisplacedProblem::getVariable
getVariable(w, tid, name) ==
  getVariableHelper(tid, name, w.systems.displaced_nl, w.systems.displaced_aux)

\* DisplacedProblem::getStandardVariable
getStandardVariable_aux_first(w, tid, name) ==
  IF sys_hasVariable(w.systems.displaced_aux, name)
  THEN sys_getFieldVariable(w.systems.displaced_aux, tid, name, "Real")
  ELSE IF ~sys_hasVariable(w.systems.displaced_nl, name)
       THEN mooseError("No variable with name")
       ELSE sys_getFieldVariable(w.systems.displaced_nl, tid, name, "Real")
getStandardVariable(w, tid, name) ==
  IF sys_hasVariable(w.systems.displaced_nl, name)
  THEN sys_getFieldVariable(w.systems.displaced_nl, tid, name, "Real")
  ELSE IF ~sys_hasVariable(w.systems.displaced_aux, name)
       THEN mooseError("No variable with name")
       ELSE sys_getFieldVariable(w.systems.displaced_aux, tid, name, "Real")

\* DisplacedProblem::getVectorVariable
getVectorVariable(w, tid, name) ==
  IF sys_hasVariable(w.systems.displaced_nl, name)
  THEN sys_getFieldVariable(w.systems.displaced_nl, tid, name, "RealVectorValue")
  ELSE IF ~sys_hasVariable(w.systems.displaced_aux, name)
       THEN mooseError("No variable with name")
       ELSE sys_getFieldVariable(w.systems.displaced_aux, tid, name,
                                 "RealVectorValue")

\* DisplacedProblem::getScalarVariable
getScalarVariable(w, tid, name) ==
  IF sys_hasScalarVariable(w.systems.displaced_nl, name)
  THEN sys_getScalarVariable(w.systems.displaced_nl, tid, name)
  ELSE IF sys_hasScalarVariable(w.systems.displaced_aux, name)
       THEN sys_getScalarVariable(w.systems.displaced_aux, tid, name)
       ELSE mooseError("No variable with name")

\* DisplacedProblem::getSystem
getSystem(w, name) ==
  IF sys_hasVariable(w.systems.displaced_nl, name)
  THEN sys_system(w.systems.displaced_nl)
  ELSE IF sys_hasVariable(w.systems.displaced_aux, name)
       THEN sys_system(w.systems.displaced_aux)
       ELSE mooseError("Unable to find a system containing the variable")

InitWorld ==
  [systems |->
     [displaced_nl |-> [name |-> "displaced_nl", vars |-> {}, scalars |-> {}],
      displaced_aux |-> [name |-> "displaced_aux", vars |-> {}, scalars |-> {}]],
   mproblem |->
     [vars |-> {}, transient |-> FALSE, converged |-> FALSE,
      has_jacobian |-> FALSE, const_jacobian |-> FALSE,
      coord_sys |-> [sid \in Subdomains |-> "COORD_XYZ"]]]

\* ------------------------------------------- per-thread state, Dirac points
Elems == {"e1", "e2"}
Points == {"p1", "p2"}

\* Assembly::reinitAtPhysical(elem, points)
\* The element-local contributions an Assembly holds: for the residual and
\* the Jacobian blocks and for the two caches pending scatter, the elements
\* whose contributions are in it.  Every reinitialization call resets them.
NoContrib ==
  [residual |-> {}, jacobian |-> {}, cached_residual |-> {},
   cached_jacobian |-> {}]

assembly_reinitAtPhysical(x, tid, elem, points) ==
  [x EXCEPT !.th[tid].assembly = [elem |-> elem, points |-> points],
            !.th[tid].contrib = NoContrib,
            !.touched = @ \cup {tid},
            !.log = Append(@, "assembly.reinitAtPhysical")]

\* Assembly::prepare()
assembly_prepare(x, tid) ==
  [x EXCEPT !.touched = @ \cup {tid}, !.log = Append(@, "assembly.prepare")]

\* _displaced_nl.prepare(tid): the system takes the dof indices of the
\* element the thread's Assembly is on.
nl_prepare(x, tid) ==
  [x EXCEPT !.th[tid].nl.prepared = x.th[tid].assembly.elem,
            !.log = Append(@, "nl.prepare")]

\* _displaced_aux.prepare(tid)
aux_prepare(x, tid) ==
  [x EXCEPT !.th[tid].aux.prepared = x.th[tid].assembly.elem,
            !.log = Append(@, "aux.prepare")]

\* _displaced_nl.reinitElem(elem, tid)
nl_reinitElem(x, elem, tid) ==
  [x EXCEPT !.th[tid].nl.elem = elem, !.log = Append(@, "nl.reinitElem")]

\* _displaced_aux.reinitElem(elem, tid)
aux_reinitElem(x, elem, tid) ==
  [x EXCEPT !.th[tid].aux.elem = elem, !.log = Append(@, "aux.reinitElem")]

\* _dirac_kernel_info.getPoints()[elem]: std::map::operator[] creates an
\* empty entry for a key the map does not hold.
getPoints_at(x, elem) ==
  IF elem \in DOMAIN x.dirac THEN x
  ELSE [x EXCEPT !.dirac = [e \in DOMAIN x.dirac \cup {elem} |->
                               IF e = elem THEN <<>> ELSE x.dirac[e]]]

\* DisplacedProblem::reinitElem
reinitElem(x, elem, tid) == aux_reinitElem(nl_reinitElem(x, elem, tid), elem, tid)

\* DisplacedProblem::reinitDirac: the state after the call and the value
\* returned.
reinitDirac_ungated(x, elem, tid) ==
  LET x1 == getPoints_at(x, elem)
      points == x1.dirac[elem]
      x2 == reinitElem(
              aux_prepare(
                nl_prepare(
                  assembly_reinitAtPhysical(x1, tid, elem, points), tid), tid),
              elem, tid)
  IN [x |-> assembly_prepare(x2, tid), ret |-> Len(points) > 0]
reinitDirac(x, elem, tid) ==
  LET x1 == getPoints_at(x, elem)
      points == x1.dirac[elem]
      n_points == Len(points)
      x2 == IF n_points # 0
            THEN reinitElem(
                   aux_prepare(
                     nl_prepare(
                       assembly_reinitAtPhysical(x1, tid, elem, points), tid),
                     tid),
                   elem, tid)
            ELSE x1
  IN [x |-> assembly_prepare(x2, tid), ret |-> n_points > 0]

\* DisplacedProblem::clearDiracInfo
clearDiracInfo(x) == [x EXCEPT !.dirac = <<>>]

\* DiracKernelInfo::addPoint: the point is added to the element's list
\* unless the list holds it.
dirac_addPoint(x, elem, p) ==
  LET x1 == getPoints_at(x, elem)
  IN IF \E i \in 1..Len(x1.dirac[elem]) : x1.dirac[elem][i] = p THEN x1
     ELSE [x1 EXCEPT !.dirac[elem] = Append(@, p)]

InitThread ==
  [assembly |-> [elem |-> "none", points |-> <<>>],
   contrib |-> NoContrib,
   nl |-> [prepared |-> "none", elem |-> "none"],
   aux |-> [prepared |-> "none", elem |-> "none"]]

InitThreads ==
  [th |-> [tid \in Tids |-> InitThread], dirac |-> <<>>, touched |-> {},
   log |-> <<>>]

\* ------------------------------------------------- per-thread forwarders
\* Start of a per-thread entry point: the call log and the set of Assembly
\* indices used are empty. touched collects every i for which the call
\* reaches _assembly[i].
enter_thread(x) == [x EXCEPT !.log = <<>>, !.touched = {}]

\* _assembly[tid]->method(...): a method of the thread's Assembly that
\* leaves the element the Assembly is on as it is.
\* What a method of the Assembly does to the contributions c it holds: a
\* reinitialization resets them, a cache call adds the block to the cache,
\* a scatter of the cache empties the cache.
assembly_effect(c, method) ==
  CASE method \in {"assembly.reinit", "assembly.reinitNeighborAtPhysical"} ->
         NoContrib
    [] method \in {"assembly.cacheResidual", "assembly.cacheResidualNeighbor"} ->
         [c EXCEPT !.cached_residual = @ \cup c.residual]
    [] method \in {"assembly.addCachedResiduals", "assembly.addCachedResidual"} ->
         [c EXCEPT !.cached_residual = {}]
    [] method \in {"assembly.cacheJacobian", "assembly.cacheJacobianNonlocal",
                   "assembly.cacheJacobianNeighbor"} ->
         [c EXCEPT !.cached_jacobian = @ \cup c.jacobian]
    [] method = "assembly.addCachedJacobian" ->
         [c EXCEPT !.cached_jacobian = {}]
    [] OTHER -> c

assembly_method(x, tid, method) ==
  [x EXCEPT !.th[tid].contrib = assembly_effect(@, method),
            !.touched = @ \cup {tid}, !.log = Append(@, method)]

\* A kernel evaluated on the element the thread's Assembly is on adds its
\* contributions to the residual and the Jacobian block.
kernel_compute(x, tid) ==
  [x EXCEPT !.th[tid].contrib.residual = @ \cup {x.th[tid].assembly.elem},
            !.th[tid].contrib.jacobian = @ \cup {x.th[tid].assembly.elem}]

\* Assembly::reinit(elem), reinit(elem, side): shape functions and
\* quadrature are recomputed on elem with the quadrature rule's own points.
assembly_reinit(x, tid, elem) ==
  [x EXCEPT !.th[tid].assembly = [elem |-> elem, points |-> <<>>],
            !.th[tid].contrib = NoContrib,
            !.touched = @ \cup {tid},
            !.log = Append(@, "assembly.reinit")]

\* Assembly::reinit(node)
assembly_reinit_node(x, tid, node) ==
  assembly_method(x, tid, "assembly.reinit")

\* Assembly::reinitElemAndNeighbor(elem, side, neighbor, neighbor_side)
assembly_reinitElemAndNeighbor(x, tid, elem, neighbor) ==
  [x EXCEPT !.th[tid].assembly = [elem |-> elem, points |-> <<>>],
            !.th[tid].contrib = NoContrib,
            !.touched = @ \cup {tid},
            !.log = Append(@, "assembly.reinitElemAndNeighbor")]

\* Assembly::reinitNeighborAtPhysical(neighbor, [neighbor_side,] points)
assembly_reinitNeighborAtPhysical(x, tid, neighbor, points) ==
  assembly_method(x, tid, "assembly.reinitNeighborAtPhysical")

\* A step of one displaced system that the model records only in the log.
system_step(x, step) == [x EXCEPT !.log = Append(@, step)]

\* elem->neighbor_ptr(side): the mesh of the model has two elements, each
\* the other's neighbor.
neighbor_ptr(elem) == IF elem = "e1" THEN "e2" ELSE "e1"

\* DisplacedProblem::prepare(elem, tid)
prepare_keep_assembly(x, mp, elem, tid) ==
  LET x1 == aux_prepare(nl_prepare(x, tid), tid)
      x2 == IF ~mp.has_jacobian \/ ~mp.const_jacobian
            THEN assembly_method(x1, tid, "assembly.prepareJacobianBlock")
            ELSE x1
  IN assembly_method(x2, tid, "assembly.prepareResidual")
prepare_always_block(x, mp, elem, tid) ==
  assembly_method(
    assembly_method(
      aux_prepare(nl_prepare(assembly_reinit(x, tid, elem), tid), tid),
      tid, "assembly.prepareJacobianBlock"),
    tid, "assembly.prepareResidual")
prepare(x, mp, elem, tid) ==
  LET x1 == aux_prepare(nl_prepare(assembly_reinit(x, tid, elem), tid), tid)
      x2 == IF ~mp.has_jacobian \/ ~mp.const_jacobian
            THEN assembly_method(x1, tid, "assembly.prepareJacobianBlock")
            ELSE x1
  IN assembly_method(x2, tid, "assembly.prepareResidual")

\* DisplacedProblem::prepareNonlocal
prepareNonlocal(x, tid) == assembly_method(x, tid, "assembly.prepareNonlocal")

\* DisplacedProblem::prepareFace
prepareFace(x, elem, tid) ==
  system_step(system_step(x, "nl.prepareFace"), "aux.prepareFace")

\* DisplacedProblem::prepare(elem, ivar, jvar, dof_indices, tid)
prepare_block(x, elem, tid) ==
  assembly_method(
    aux_prepare(nl_prepare(assembly_reinit(x, tid, elem), tid), tid),
    tid, "assembly.prepareBlock")

\* DisplacedProblem::setCurrentSubdomainID
setCurrentSubdomainID(x, elem, tid) ==
  assembly_method(x, tid, "assembly.setCurrentSubdomainID")

\* DisplacedProblem::setNeighborSubdomainID
setNeighborSubdomainID(x, elem, tid) ==
  assembly_method(x, tid, "assembly.setCurrentNeighborSubdomainID")

\* DisplacedProblem::prepareBlockNonlocal
prepareBlockNonlocal(x, tid) ==
  assembly_method(x, tid, "assembly.prepareBlockNonlocal")

\* DisplacedProblem::prepareAssembly
prepareAssembly(x, tid) == assembly_prepare(x, tid)

\* DisplacedProblem::prepareAssemblyNeighbor
prepareAssemblyNeighbor(x, tid) ==
  assembly_method(x, tid, "assembly.prepareNeighbor")

\* DisplacedProblem::reinitElemPhys
reinitElemPhys(x, elem, points, tid) ==
  reinitElem(
    assembly_prepare(
      aux_prepare(
        nl_prepare(assembly_reinitAtPhysical(x, tid, elem, points), tid), tid),
      tid),
    elem, tid)

\* DisplacedProblem::reinitElemFace
reinitElemFace_other_assembly(x, elem, tid) ==
  system_step(
    system_step(assembly_reinit(x, (tid + 1) % NumThreads, elem),
                "nl.reinitElemFace"),
    "aux.reinitElemFace")
reinitElemFace(x, elem, tid) ==
  system_step(
    system_step(assembly_reinit(x, tid, elem), "nl.reinitElemFace"),
    "aux.reinitElemFace")

\* DisplacedProblem::reinitNode
reinitNode(x, node, tid) ==
  system_step(
    system_step(assembly_reinit_node(x, tid, node), "nl.reinitNode"),
    "aux.reinitNode")

\* DisplacedProblem::reinitNodeFace
reinitNodeFace_aux_first(x, node, tid) ==
  system_step(
    system_step(assembly_reinit_node(x, tid, node), "aux.reinitNodeFace"),
    "nl.reinitNodeFace")
reinitNodeFace(x, node, tid) ==
  system_step(
    system_step(assembly_reinit_node(x, tid, node), "nl.reinitNodeFace"),
    "aux.reinitNodeFace")

\* DisplacedProblem::reinitNodes
reinitNodes(x, tid) ==
  system_step(system_step(x, "nl.reinitNodes"), "aux.reinitNodes")

\* DisplacedProblem::reinitNodesNeighbor
reinitNodesNeighbor(x, tid) ==
  system_step(system_step(x, "nl.reinitNodesNeighbor"),
              "aux.reinitNodesNeighbor")

\* DisplacedProblem::reinitNeighbor
reinitNeighbor(x, elem, tid) ==
  LET neighbor == neighbor_ptr(elem)
      x1 == assembly_reinitElemAndNeighbor(x, tid, elem, neighbor)
      x2 == system_step(system_step(x1, "nl.prepareNeighbor"),
                        "aux.prepareNeighbor")
      x3 == assembly_method(x2, tid, "assembly.prepareNeighbor")
      x4 == system_step(system_step(x3, "nl.reinitElemFace"),
                        "aux.reinitElemFace")
  IN system_step(system_step(x4, "nl.reinitNeighborFace"),
                 "aux.reinitNeighborFace")

\* DisplacedProblem::reinitNeighborPhys(neighbor, neighbor_side, points, tid)
reinitNeighborPhys_systems_first(x, neighbor, points, tid) ==
  LET x1 == system_step(system_step(x, "nl.prepareNeighbor"),
                        "aux.prepareNeighbor")
      x2 == prepareAssemblyNeighbor(x1, tid)
      x3 == system_step(system_step(x2, "nl.reinitNeighborFace"),
                        "aux.reinitNeighborFace")
  IN assembly_reinitNeighborAtPhysical(x3, tid, neighbor, points)
reinitNeighborPhys(x, neighbor, points, tid) ==
  LET x1 == assembly_reinitNeighborAtPhysical(x, tid, neighbor, points)
      x2 == system_step(system_step(x1, "nl.prepareNeighbor"),
                        "aux.prepareNeighbor")
      x3 == prepareAssemblyNeighbor(x2, tid)
  IN system_step(system_step(x3, "nl.reinitNeighborFace"),
                 "aux.reinitNeighborFace")

\* DisplacedProblem::reinitNeighborPhys(neighbor, points, tid)
reinitNeighborPhys2(x, neighbor, points, tid) ==
  LET x1 == assembly_reinitNeighborAtPhysical(x, tid, neighbor, points)
      x2 == system_step(system_step(x1, "nl.prepareNeighbor"),
                        "aux.prepareNeighbor")
      x3 == prepareAssemblyNeighbor(x2, tid)
  IN system_step(system_step(x3, "nl.reinitNeighbor"), "aux.reinitNeighbor")

\* DisplacedProblem::reinitScalars
reinitScalars(x, tid) ==
  system_step(system_step(x, "nl.reinitScalars"), "aux.reinitScalars")

\* DisplacedProblem::reinitOffDiagScalars
reinitOffDiagScalars(x, tid) ==
  assembly_method(x, tid, "assembly.prepareOffDiagScalar")

\* ------------------------------------- residual and Jacobian forwarders
\* The entry points of DisplacedProblem that only call methods of
\* _assembly[tid], with the methods each calls, in order.  The second
\* addJacobianNeighbor is the form that takes the Jacobian and the variable
\* numbers; addCachedResidualDirectly adds the cached residuals of the time
\* and of the non-time tag; the prepare*Shapes entry points copy shapes.
AssemblyForwarders ==
  [addResidual |-> <<"assembly.addResidual">>,
   addResidualNeighbor |-> <<"assembly.addResidualNeighbor">>,
   cacheResidual |-> <<"assembly.cacheResidual">>,
   cacheResidualNeighbor |-> <<"assembly.cacheResidualNeighbor">>,
   addCachedResidual |-> <<"assembly.addCachedResiduals">>,
   addCachedResidualDirectly |->
     <<"assembly.addCachedResidual", "assembly.addCachedResidual">>,
   setResidual |-> <<"assembly.setResidual">>,
   setResidualNeighbor |-> <<"assembly.setResidualNeighbor">>,
   addJacobian |-> <<"assembly.addJacobian">>,
   addJacobianNonlocal |-> <<"assembly.addJacobianNonlocal">>,
   addJacobianNeighbor |-> <<"assembly.addJacobianNeighbor">>,
   cacheJacobian |-> <<"assembly.cacheJacobian">>,
   cacheJacobianNonlocal |-> <<"assembly.cacheJacobianNonlocal">>,
   cacheJacobianNeighbor |-> <<"assembly.cacheJacobianNeighbor">>,
   addCachedJacobian |-> <<"assembly.addCachedJacobian">>,
   addJacobianBlock |-> <<"assembly.addJacobianBlock">>,
   addJacobianBlockNonlocal |-> <<"assembly.addJacobianBlockNonlocal">>,
   addJacobianNeighborBlock |-> <<"assembly.addJacobianNeighbor">>,
   prepareShapes |-> <<"assembly.copyShapes">>,
   prepareFaceShapes |-> <<"assembly.copyFaceShapes">>,
   prepareNeighborShapes |-> <<"assembly.copyNeighborShapes">>]

\* The calls of a forwarder from position i of its list on.
RECURSIVE assembly_methods_from(_, _, _, _)
assembly_methods_from(x, tid, methods, i) ==
  IF i > Len(methods) THEN x
  ELSE assembly_methods_from(assembly_method(x, tid, methods[i]), tid,
                             methods, i + 1)

\* DisplacedProblem::addResidual ... prepareNeighborShapes
forward(x, tid, name) ==
  assembly_methods_from(x, tid, AssemblyForwarders[name], 1)

\* -------------------------------------------- init, old solutions
\* A step of a displaced system that the model records only in the log of
\* the DisplacedProblem.
displaced_system_step(d, step) ==
  IF d.fatal THEN d ELSE [d EXCEPT !.log = Append(@, step)]

\* DisplacedProblem::saveOldSolutions
saveOldSolutions(d) ==
  displaced_system_step(displaced_system_step(d, "nl.saveOldSolutions"),
                        "aux.saveOldSolutions")

\* DisplacedProblem::restoreOldSolutions
restoreOldSolutions(d) ==
  displaced_system_step(displaced_system_step(d, "nl.restoreOldSolutions"),
                        "aux.restoreOldSolutions")

\* for (tid = 0; tid < n_threads; ++tid) _assembly[tid]->init(couplingMatrix)
RECURSIVE assembly_init_from(_, _)
assembly_init_from(x, tid) ==
  IF tid >= NumThreads THEN x
  ELSE assembly_init_from(assembly_method(x, tid, "assembly.init"), tid + 1)

\* DisplacedProblem::init
init(x) ==
  LET x1 == assembly_init_from(x, 0)
      x2 == system_step(
              system_step(x1, "nl.attach_extra_send_list_function"),
              "aux.attach_extra_send_list_function")
      x3 == system_step(system_step(x2, "nl.init"), "aux.init")
  IN system_step(system_step(x3, "eq.init"), "mesh.meshChanged")

\* ----------------------------------------------------------- CoupledProblem
\* Sub-problem names; std::map iterates its keys in KeyOrder.
SubNames == {"A", "B", "C"}
KeyOrder == <<"A", "B", "C">>

\* The clock: the cells "time", "t_step" and "dt" of an owner, which is the
\* equation-systems container ("eq") or an object keeping a value of its own.
ClockFields == {"time", "t_step", "dt"}
ClockValues == 0..MaxClock
ClockOwners == {"eq"} \cup SubNames
ClockCells == ClockOwners \X ClockFields

\* Real & _time; int & _t_step; Real & _dt: bound to the container's cells.
coupled_clock == [f \in ClockFields |-> <<"eq", f>>]

\* A sub-problem takes its time, step and dt references from its parent.
subproblem_clock_own(c, name) == [f \in ClockFields |-> <<name, f>>]
subproblem_clock(c, name) == c.clock

\* mooseError in a CoupledProblem method: the run ends.
coupled_error(c, msg) == [c EXCEPT !.fatal = TRUE, !.error = msg]

\* _subproblems[file_name] = subproblem; inserted is history, the names in
\* the order of their first registration.
addSubProblem(c, name) ==
  [c EXCEPT !.subproblems = [n \in DOMAIN @ \cup {name} |->
                               IF n = name THEN subproblem_clock(c, name)
                               ELSE @[n]],
            !.inserted = IF name \in DOMAIN c.subproblems THEN @
                         ELSE Append(@, name)]

\* subProblem(name): is name a key of the registry
has_subProblem(c, name) == name \in DOMAIN c.subproblems

\* CoupledProblem::solveOrder(solve_order)
solveOrder_unchecked(c, solve_order) ==
  [c EXCEPT !.solve_order = solve_order]
solveOrder(c, solve_order) ==
  IF \E i \in 1..Len(solve_order) : ~has_subProblem(c, solve_order[i])
  THEN coupled_error(c, "solveOrder: unknown sub-problem")
  ELSE [c EXCEPT !.solve_order = solve_order]

\* One sub-problem's solve/update step.
subproblem_update(c, name) == [c EXCEPT !.log = Append(@, name)]

\* The loop of update() from position i of _solve_order on.
RECURSIVE update_from(_, _)
update_from(c, i) ==
  IF i > Len(c.solve_order) THEN c
  ELSE update_from(subproblem_update(c, c.solve_order[i]), i + 1)

\* A loop over _subproblems instead, from position i of the key order on.
RECURSIVE update_registry_from(_, _)
update_registry_from(c, i) ==
  IF i > Len(KeyOrder) THEN c
  ELSE update_registry_from(
         IF KeyOrder[i] \in DOMAIN c.subproblems
         THEN subproblem_update(c, KeyOrder[i]) ELSE c,
         i + 1)

\* CoupledProblem::update()
update_registry_order(c) == update_registry_from([c EXCEPT !.log = <<>>], 1)
update(c) == update_from([c EXCEPT !.log = <<>>], 1)

\* time(), timeStep(), dt(): the reference the member is bound to
time(c) == c.clock["time"]
timeStep(c) == c.clock["t_step"]
dt(c) == c.clock["dt"]

\* The accessor of a sub-problem, for one of the three fields.
subproblem_accessor(c, name, field) == c.subproblems[name][field]

\* Assignment through a reference, and the value read through one.
write_through(c, ref, v) == [c EXCEPT !.cells[ref] = v]
read_through(c, ref) == c.cells[ref]

InitCoupled ==
  [subproblems |-> << >>,
   inserted |-> << >>,
   solve_order |-> << >>,
   clock |-> coupled_clock,
   cells |-> [cell \in ClockCells |-> 0],
   log |-> << >>,
   fatal |-> FALSE,
   error |-> ""]

\* ---------------------------------------------------------- specification
\* The vectors alive during a call without / with supplied vectors.
Mem == [current_nl |-> mproblem.nl, current_aux |-> mproblem.aux]
MemWith(soln, aux_soln) ==
  [current_nl |-> mproblem.nl, current_aux |-> mproblem.aux,
   soln |-> soln, aux_soln |-> aux_soln]

RefCoords == [n \in Nodes |-> reference_node(n)]

InitDP ==
  [displaced_nl |-> [solution |-> ZeroNl, current_local_solution |-> ZeroNl],
   displaced_aux |-> [solution |-> ZeroAux, current_local_solution |-> ZeroAux],
   nl_solution |-> "null",
   aux_solution |-> "null",
   coord |-> RefCoords,
   mesh |-> "serial",
   ref_mesh |-> "serial",
   geometric_search_data |-> [built |-> FALSE, coord |-> RefCoords],
   point_locator |-> [built |-> FALSE, coord |-> RefCoords],
   fatal |-> FALSE,
   log |-> <<>>]

NoPar == [op |-> "none"]

Init ==
  /\ mproblem = [nl |-> ZeroNl, aux |-> ZeroAux]
  /\ dp = InitDP
  /\ lastCall = [op |-> "init"]
  /\ par = NoPar
  /\ tags = InitTags
  /\ world = InitWorld
  /\ threads = InitThreads
  /\ coupled = InitCoupled

\* The solver advances the reference problem's nonlinear solution.
MProblemSolveNl ==
  \E n \in Nodes, v \in Values :
    /\ par = NoPar
    /\ mproblem.nl[n] # v
    /\ mproblem' = [mproblem EXCEPT !.nl[n] = v]
    /\ lastCall' = [op |-> "solve"]
    /\ UNCHANGED <<dp, par>>
    /\ UNCHANGED nonMeshVars

\* The reference problem's auxiliary solution is recomputed.
MProblemSolveAux ==
  \E a \in AuxDofs, v \in Values :
    /\ par = NoPar
    /\ mproblem.aux[a] # v
    /\ mproblem' = [mproblem EXCEPT !.aux[a] = v]
    /\ lastCall' = [op |-> "solve"]
    /\ UNCHANGED <<dp, par>>
    /\ UNCHANGED nonMeshVars

SyncSolutions ==
  /\ dp' = syncSolutions(enter(dp), Mem)
  /\ lastCall' = [op |-> "syncSolutions"]
  /\ UNCHANGED <<mproblem, par>>
  /\ UNCHANGED nonMeshVars

SyncSolutions2 ==
  \E soln \in NlVectors, aux_soln \in AuxVectors :
    /\ dp' = syncSolutions2(enter(dp), MemWith(soln, aux_soln))
    /\ lastCall' = [op |-> "syncSolutions2", soln |-> soln, aux_soln |-> aux_soln]
    /\ UNCHANGED <<mproblem, par>>
    /\ UNCHANGED nonMeshVars

\* since_repair: the calls since an updateMesh() that issued a collective
\* were all updateMesh() calls.
UpdateMesh ==
  /\ dp' = updateMesh(enter(dp), Mem)
  /\ lastCall' = [op |-> "updateMesh", mesh |-> dp.mesh, ref_mesh |-> dp.ref_mesh,
                   since_repair |->
                     /\ lastCall.op = "updateMesh"
                     /\ \/ lastCall.since_repair
                        \/ \E i \in 1..Len(dp.log) :
                             dp.log[i] \in CollectiveEvents]
  /\ UNCHANGED <<mproblem, par>>
  /\ UNCHANGED nonMeshVars

UpdateMesh2 ==
  \E soln \in NlVectors, aux_soln \in AuxVectors :
    /\ dp' = updateMesh2(enter(dp), MemWith(soln, aux_soln))
    /\ lastCall' = [op |-> "updateMesh2", soln |-> soln, aux_soln |-> aux_soln,
                     mesh |-> dp.mesh, ref_mesh |-> dp.ref_mesh]
    /\ UNCHANGED <<mproblem, par>>
    /\ UNCHANGED nonMeshVars

UndisplaceMesh ==
  /\ dp' = undisplaceMesh(enter(dp))
  /\ lastCall' = [op |-> "undisplaceMesh",
                   geometric_search_data |-> dp.geometric_search_data,
                   point_locator |-> dp.point_locator]
  /\ UNCHANGED <<mproblem, par>>
  /\ UNCHANGED nonMeshVars

\* Mesh updates driven by the solver: every entry point runs to completion.
Next ==
  \/ MProblemSolveNl
  \/ MProblemSolveAux
  \/ UpdateMesh
  \/ UpdateMesh2
  \/ UndisplaceMesh

Spec == Init /\ [][Next]_vars

\* Solution synchronization on its own, between mesh updates.
NextSync ==
  \/ MProblemSolveNl
  \/ MProblemSolveAux
  \/ SyncSolutions
  \/ SyncSolutions2
  \/ UpdateMesh

SpecSync == Init /\ [][NextSync]_vars

\* ------------------------------------------- parallel_reduce, step by step
\* The node range as the sequence its iterators traverse.
RECURSIVE RangeSeq(_)
RangeSeq(S) ==
  IF S = {} THEN <<>>
  ELSE LET n == CHOOSE x \in S : \A y \in S : x <= y
       IN <<n>> \o RangeSeq(S \ {n})

\* With grain size 1 the range may be split at any positions: the subranges
\* [next, last] (positions of the range) that a set of cuts leaves.
Subranges(len, cuts) ==
  LET bounds == {0} \cup cuts
  IN {[next |-> b + 1,
       last |-> CHOOSE e \in (cuts \cup {len}) :
                  /\ e > b
                  /\ \A f \in (cuts \cup {len}) : f > b => e <= f] : b \in bounds}

StartPar(op, d, range) ==
  \E cuts \in SUBSET (1..(Cardinality(range) - 1)) :
    par' = [op |-> op,
            range |-> RangeSeq(range),
            chunks |-> Subranges(Cardinality(range), cuts),
            nchunks |-> Cardinality(cuts) + 1,
            start |-> d,
            visits |-> [n \in Nodes |-> 0]]

\* updateMesh() has synchronized, repaired and handed the range to workers.
BeginUpdateMesh ==
  /\ par = NoPar
  /\ Cardinality(node_range) > 0
  /\ dp' = updateMesh_begin(enter(dp), Mem)
  /\ StartPar("updateMesh", dp', node_range)
  /\ UNCHANGED <<mproblem, lastCall>>
  /\ UNCHANGED nonMeshVars

\* undisplaceMesh() has handed the range to workers.
BeginUndisplaceMesh ==
  /\ par = NoPar
  /\ Cardinality(node_range) > 0
  /\ dp' = enter(dp)
  /\ StartPar("undisplaceMesh", dp', node_range)
  /\ UNCHANGED <<mproblem, lastCall>>
  /\ UNCHANGED nonMeshVars

\* Some worker runs the visitor on the next node of its subrange.
VisitNode ==
  /\ par # NoPar
  /\ \E c \in par.chunks :
       /\ c.next <= c.last
       /\ LET n == par.range[c.next]
          IN /\ dp' = IF par.op = "updateMesh"
                      THEN displace_node(dp, Mem, n)
                      ELSE undisplace_node(dp, n)
             /\ par' = [par EXCEPT
                          !.chunks = (@ \ {c}) \cup {[c EXCEPT !.next = @ + 1]},
                          !.visits[n] = @ + 1]
  /\ UNCHANGED <<mproblem, lastCall>>
  /\ UNCHANGED nonMeshVars

AllVisited == \A c \in par.chunks : c.next > c.last

\* UpdateDisplacedMeshThread::join / ResetDisplacedMeshThread::join
join(d) == d

Returned(op) ==
  [op |-> op,
   nchunks |-> par.nchunks,
   visits |-> par.visits,
   sequential |-> IF op = "updateMesh"
                  THEN displace_pass(par.start, Mem, Nodes).coord
                  ELSE undisplace_pass(par.start, Nodes).coord]

\* parallel_reduce returns to updateMesh(), which finishes.
JoinUpdateMesh ==
  /\ par # NoPar
  /\ par.op = "updateMesh"
  /\ AllVisited
  /\ dp' = updateMesh_end([join(dp) EXCEPT !.log = Append(@, "displace")])
  /\ lastCall' = Returned("updateMesh")
  /\ par' = NoPar
  /\ UNCHANGED mproblem
  /\ UNCHANGED nonMeshVars

\* parallel_reduce returns to undisplaceMesh(), which finishes.
JoinUndisplaceMesh ==
  /\ par # NoPar
  /\ par.op = "undisplaceMesh"
  /\ AllVisited
  /\ dp' = [join(dp) EXCEPT !.log = Append(@, "undisplace")]
  /\ lastCall' = Returned("undisplaceMesh")
  /\ par' = NoPar
  /\ UNCHANGED mproblem
  /\ UNCHANGED nonMeshVars

NextPar ==
  \/ MProblemSolveNl
  \/ BeginUpdateMesh
  \/ BeginUndisplaceMesh
  \/ VisitNode
  \/ JoinUpdateMesh
  \/ JoinUndisplaceMesh

SpecPar == Init /\ [][NextPar]_vars

\* ------------------------------------------------------- tag entry points
\* addVectorTag called on the DisplacedProblem.
AddVectorTag ==
  \E name \in TagNames :
    LET r == addVectorTag(tags, name)
    IN /\ tags' = r.t
       /\ lastCall' = [op |-> "addVectorTag", through |-> "displaced",
                       name |-> name, ret |-> r.ret]
       /\ UNCHANGED <<meshVars, world, threads, coupled>>

\* addVectorTag called on the reference problem.
MProblemAddVectorTag ==
  \E name \in TagNames :
    LET r == mproblem_addVectorTag(tags, name)
    IN /\ tags' = r.t
       /\ lastCall' = [op |-> "addVectorTag", through |-> "mproblem",
                       name |-> name, ret |-> r.ret]
       /\ UNCHANGED <<meshVars, world, threads, coupled>>

\* addMatrixTag called on the DisplacedProblem.
AddMatrixTag ==
  \E name \in TagNames :
    LET r == addMatrixTag(tags, name)
    IN /\ tags' = r.t
       /\ lastCall' = [op |-> "addMatrixTag", through |-> "displaced",
                       name |-> name, ret |-> r.ret]
       /\ UNCHANGED <<meshVars, world, threads, coupled>>

\* addMatrixTag called on the reference problem.
MProblemAddMatrixTag ==
  \E name \in TagNames :
    LET r == mproblem_addMatrixTag(tags, name)
    IN /\ tags' = r.t
       /\ lastCall' = [op |-> "addMatrixTag", through |-> "mproblem",
                       name |-> name, ret |-> r.ret]
       /\ UNCHANGED <<meshVars, world, threads, coupled>>

NextTags ==
  \/ AddVectorTag
  \/ MProblemAddVectorTag
  \/ AddMatrixTag
  \/ MProblemAddMatrixTag

SpecTags == Init /\ [][NextTags]_vars

\* ------------------------------------------ variable and identity queries
otherThanWorld == <<meshVars, tags, threads, coupled>>

AddVariable ==
  \E name \in VarNames :
    /\ ~sys_hasVariable(world.systems.displaced_nl, name)
    /\ ~sys_hasScalarVariable(world.systems.displaced_nl, name)
    /\ world' = addVariable(world, name)
    /\ lastCall' = [op |-> "addVariable"]
    /\ UNCHANGED otherThanWorld

AddAuxVariable ==
  \E name \in VarNames :
    /\ ~sys_hasVariable(world.systems.displaced_aux, name)
    /\ ~sys_hasScalarVariable(world.systems.displaced_aux, name)
    /\ world' = addAuxVariable(world, name)
    /\ lastCall' = [op |-> "addAuxVariable"]
    /\ UNCHANGED otherThanWorld

AddScalarVariable ==
  \E name \in VarNames :
    /\ ~sys_hasVariable(world.systems.displaced_nl, name)
    /\ ~sys_hasScalarVariable(world.systems.displaced_nl, name)
    /\ world' = addScalarVariable(world, name)
    /\ lastCall' = [op |-> "addScalarVariable"]
    /\ UNCHANGED otherThanWorld

AddAuxScalarVariable ==
  \E name \in VarNames :
    /\ ~sys_hasVariable(world.systems.displaced_aux, name)
    /\ ~sys_hasScalarVariable(world.systems.displaced_aux, name)
    /\ world' = addAuxScalarVariable(world, name)
    /\ lastCall' = [op |-> "addAuxScalarVariable"]
    /\ UNCHANGED otherThanWorld

GetVariable ==
  \E tid \in Tids, name \in VarNames :
    /\ lastCall' = [op |-> "getVariable", tid |-> tid, name |-> name,
                    ret |-> getVariable(world, tid, name)]
    /\ UNCHANGED <<world, otherThanWorld>>

GetStandardVariable ==
  \E tid \in Tids, name \in VarNames :
    /\ lastCall' = [op |-> "getStandardVariable", tid |-> tid, name |-> name,
                    ret |-> getStandardVariable(world, tid, name)]
    /\ UNCHANGED <<world, otherThanWorld>>

GetVectorVariable ==
  \E tid \in Tids, name \in VarNames :
    /\ lastCall' = [op |-> "getVectorVariable", tid |-> tid, name |-> name,
                    ret |-> getVectorVariable(world, tid, name)]
    /\ UNCHANGED <<world, otherThanWorld>>

GetScalarVariable ==
  \E tid \in Tids, name \in VarNames :
    /\ lastCall' = [op |-> "getScalarVariable", tid |-> tid, name |-> name,
                    ret |-> getScalarVariable(world, tid, name)]
    /\ UNCHANGED <<world, otherThanWorld>>

GetSystem ==
  \E name \in VarNames :
    /\ lastCall' = [op |-> "getSystem", name |-> name,
                    ret |-> getSystem(world, name)]
    /\ UNCHANGED <<world, otherThanWorld>>

NextVars ==
  \/ AddVariable
  \/ AddAuxVariable
  \/ AddScalarVariable
  \/ AddAuxScalarVariable
  \/ GetVariable
  \/ GetStandardVariable
  \/ GetVectorVariable
  \/ GetScalarVariable
  \/ GetSystem

SpecVars == Init /\ [][NextVars]_vars

\* A variable is added to the reference problem.
MProblemAddVariable ==
  \E name \in VarNames :
    /\ name \notin world.mproblem.vars
    /\ world' = [world EXCEPT !.mproblem.vars = @ \cup {name}]
    /\ lastCall' = [op |-> "mproblem"]
    /\ UNCHANGED otherThanWorld

\* The reference problem's transient flag, convergence state or coordinate
\* system changes.
MProblemSetTransient ==
  /\ world' = [world EXCEPT !.mproblem.transient = ~@]
  /\ lastCall' = [op |-> "mproblem"]
  /\ UNCHANGED otherThanWorld

MProblemSetConverged ==
  /\ world' = [world EXCEPT !.mproblem.converged = ~@]
  /\ lastCall' = [op |-> "mproblem"]
  /\ UNCHANGED otherThanWorld

MProblemSetCoordSystem ==
  \E sid \in Subdomains, type \in CoordTypes :
    /\ world.mproblem.coord_sys[sid] # type
    /\ world' = [world EXCEPT !.mproblem.coord_sys[sid] = type]
    /\ lastCall' = [op |-> "mproblem"]
    /\ UNCHANGED otherThanWorld

HasVariable ==
  \E name \in VarNames :
    /\ lastCall' = [op |-> "hasVariable", name |-> name,
                    ret |-> hasVariable(world, name)]
    /\ UNCHANGED <<world, otherThanWorld>>

IsTransient ==
  /\ lastCall' = [op |-> "isTransient", ret |-> isTransient(world)]
  /\ UNCHANGED <<world, otherThanWorld>>

GetCoordSystem ==
  \E sid \in Subdomains :
    /\ lastCall' = [op |-> "getCoordSystem", sid |-> sid,
                    ret |-> getCoordSystem(world, sid)]
    /\ UNCHANGED <<world, otherThanWorld>>

Converged ==
  /\ lastCall' = [op |-> "converged", ret |-> converged(world)]
  /\ UNCHANGED <<world, otherThanWorld>>

NextIdentity ==
  \/ AddVariable
  \/ AddAuxVariable
  \/ AddScalarVariable
  \/ AddAuxScalarVariable
  \/ MProblemAddVariable
  \/ MProblemSetTransient
  \/ MProblemSetConverged
  \/ MProblemSetCoordSystem
  \/ HasVariable
  \/ IsTransient
  \/ GetCoordSystem
  \/ Converged

SpecIdentity == Init /\ [][NextIdentity]_vars

\* ------------------------------------------------------------ Dirac points
otherThanThreads == <<meshVars, tags, world, coupled>>

\* A Dirac kernel registers a point in an element.
AddDiracPoint ==
  \E elem \in Elems, p \in Points :
    /\ threads' = dirac_addPoint(threads, elem, p)
    /\ threads' # threads
    /\ lastCall' = [op |-> "addPoint"]
    /\ UNCHANGED otherThanThreads

ClearDiracInfo ==
  /\ threads.dirac # <<>>
  /\ threads' = clearDiracInfo(threads)
  /\ lastCall' = [op |-> "clearDiracInfo"]
  /\ UNCHANGED otherThanThreads

\* reinitDirac(elem, tid); registered is the point list the registry held
\* for elem when the call was made.
ReinitDirac ==
  \E elem \in Elems, tid \in Tids :
    LET r == reinitDirac(enter_thread(threads), elem, tid)
    IN /\ threads' = r.x
       /\ lastCall' = [op |-> "reinitDirac", elem |-> elem, tid |-> tid,
                       registered |-> IF elem \in DOMAIN threads.dirac
                                      THEN threads.dirac[elem] ELSE <<>>,
                       dirac |-> threads.dirac,
                       before |-> threads.th[tid],
                       others |-> [u \in Tids \ {tid} |-> threads.th[u]],
                       ret |-> r.ret]
       /\ UNCHANGED otherThanThreads

NextDirac ==
  \/ AddDiracPoint
  \/ ClearDiracInfo
  \/ ReinitDirac

SpecDirac == Init /\ [][NextDirac]_vars

\* ------------------------------------------------- geometry changes
\* The mesh was refined or coarsened and the problem is told so.
MeshChanged ==
  /\ dp' = meshChanged(enter(dp))
  /\ lastCall' = [op |-> "meshChanged", coord |-> dp.coord,
                   displaced_nl |-> dp.displaced_nl,
                   displaced_aux |-> dp.displaced_aux]
  /\ UNCHANGED <<mproblem, par>>
  /\ UNCHANGED nonMeshVars

NextGeom ==
  \/ MProblemSolveNl
  \/ MProblemSolveAux
  \/ UpdateMesh
  \/ UpdateMesh2
  \/ UndisplaceMesh
  \/ MeshChanged

SpecGeom == Init /\ [][NextGeom]_vars

\* --------------------------------------------------- mesh serialization
\* The node distribution of the displaced or of the reference mesh changes
\* outside updateMesh (an output serializes a mesh, remote elements are
\* deleted again).
MeshRedistribute ==
  \E m \in Distributions :
    /\ par = NoPar
    /\ \/ dp.mesh # m /\ dp' = [dp EXCEPT !.mesh = m]
       \/ dp.ref_mesh # m /\ dp' = [dp EXCEPT !.ref_mesh = m]
    /\ lastCall' = [op |-> "redistribute"]
    /\ UNCHANGED <<mproblem, par>>
    /\ UNCHANGED nonMeshVars

NextRepair ==
  \/ MProblemSolveNl
  \/ MeshRedistribute
  \/ UpdateMesh

SpecRepair == Init /\ [][NextRepair]_vars

\* The same, with both forms of updateMesh.
NextRepairBoth ==
  \/ MProblemSolveNl
  \/ MeshRedistribute
  \/ UpdateMesh
  \/ UpdateMesh2

SpecRepairBoth == Init /\ [][NextRepairBoth]_vars

\* ------------------------------------------------ incompatible vector sizes
\* Vectors whose size does not fit the displaced systems' DOF maps.
WrongNl == [n \in 1..(NumNodes + 1) |-> 0]
WrongAux == [a \in AuxDofs \cup {"extra"} |-> 0]

\* What a failed call must leave alone.
Before ==
  [nl_view |-> dp.displaced_nl.current_local_solution,
   aux_view |-> dp.displaced_aux.current_local_solution,
   coord |-> dp.coord,
   geometric_search_data |-> dp.geometric_search_data,
   point_locator |-> dp.point_locator]

\* The reference problem's systems change size (or change back) while the
\* displaced systems keep theirs.
MProblemResize ==
  /\ ~dp.fatal
  /\ \/ mproblem' = [mproblem EXCEPT
                       !.nl = IF size(@) = NumNodes THEN WrongNl ELSE ZeroNl]
     \/ mproblem' = [mproblem EXCEPT
                       !.aux = IF @ \in AuxVectors THEN WrongAux ELSE ZeroAux]
  /\ lastCall' = [op |-> "resize"]
  /\ UNCHANGED <<dp, par>>
  /\ UNCHANGED nonMeshVars

SyncSolutionsSized ==
  /\ ~dp.fatal
  /\ dp' = syncSolutions(enter(dp), Mem)
  /\ lastCall' = [op |-> "syncSolutions", soln |-> mproblem.nl,
                  aux_soln |-> mproblem.aux, before |-> Before]
  /\ UNCHANGED <<mproblem, par>>
  /\ UNCHANGED nonMeshVars

SyncSolutions2Sized ==
  \E soln \in NlVectors \cup {WrongNl}, aux_soln \in AuxVectors \cup {WrongAux} :
    /\ ~dp.fatal
    /\ dp' = syncSolutions2(enter(dp), MemWith(soln, aux_soln))
    /\ lastCall' = [op |-> "syncSolutions2", soln |-> soln,
                    aux_soln |-> aux_soln, before |-> Before]
    /\ UNCHANGED <<mproblem, par>>
    /\ UNCHANGED nonMeshVars

UpdateMeshSized ==
  /\ ~dp.fatal
  /\ dp' = updateMesh(enter(dp), Mem)
  /\ lastCall' = [op |-> "updateMesh", soln |-> mproblem.nl,
                  aux_soln |-> mproblem.aux, before |-> Before]
  /\ UNCHANGED <<mproblem, par>>
  /\ UNCHANGED nonMeshVars

UpdateMesh2Sized ==
  \E soln \in NlVectors \cup {WrongNl}, aux_soln \in AuxVectors \cup {WrongAux} :
    /\ ~dp.fatal
    /\ dp' = updateMesh2(enter(dp), MemWith(soln, aux_soln))
    /\ lastCall' = [op |-> "updateMesh2", soln |-> soln,
                    aux_soln |-> aux_soln, before |-> Before]
    /\ UNCHANGED <<mproblem, par>>
    /\ UNCHANGED nonMeshVars

NextSize ==
  \/ MProblemResize
  \/ SyncSolutionsSized
  \/ SyncSolutions2Sized
  \/ UpdateMeshSized
  \/ UpdateMesh2Sized

SpecSize == Init /\ [][NextSize]_vars

\* --------------------------------------------------- per-thread entry points
\* Elements, nodes and physical points the per-thread entry points are
\* called with.
ThreadElems == {"e1"}
ThreadNodes == {"n1"}
PhysicalPoints == {<<"p1">>}

\* A per-thread entry point called with thread id tid has returned with the
\* state x; others keeps what the other threads' states were when the call
\* was made.
ThreadCall(op, tid, x) ==
  /\ threads' = x
  /\ lastCall' = [op |-> op, tid |-> tid,
                  others |-> [u \in Tids \ {tid} |-> threads.th[u]]]
  /\ UNCHANGED otherThanThreads

\* The per-thread entry points that take an element, a node or a list of
\* physical points besides the thread id.
ElementEntryPoints ==
  {"prepare", "prepareFace", "prepare_block", "setCurrentSubdomainID",
   "setNeighborSubdomainID", "reinitElem", "reinitElemFace", "reinitNeighbor",
   "reinitNode", "reinitNodeFace", "reinitElemPhys", "reinitNeighborPhys",
   "reinitNeighborPhys2"}

\* The per-thread entry points that take the thread id only.
ThreadEntryPoints ==
  {"prepareNonlocal", "prepareBlockNonlocal", "prepareAssembly",
   "prepareAssemblyNeighbor", "reinitNodes", "reinitNodesNeighbor",
   "reinitScalars", "reinitOffDiagScalars"}

\* The entry point op of DisplacedProblem, called from thread tid.
entry_point(op, x, mp, elem, node, points, tid) ==
  CASE op = "prepare" -> prepare(x, mp, elem, tid)
    [] op = "prepareFace" -> prepareFace(x, elem, tid)
    [] op = "prepare_block" -> prepare_block(x, elem, tid)
    [] op = "setCurrentSubdomainID" -> setCurrentSubdomainID(x, elem, tid)
    [] op = "setNeighborSubdomainID" -> setNeighborSubdomainID(x, elem, tid)
    [] op = "reinitElem" -> reinitElem(x, elem, tid)
    [] op = "reinitElemFace" -> reinitElemFace(x, elem, tid)
    [] op = "reinitNeighbor" -> reinitNeighbor(x, elem, tid)
    [] op = "reinitNode" -> reinitNode(x, node, tid)
    [] op = "reinitNodeFace" -> reinitNodeFace(x, node, tid)
    [] op = "reinitElemPhys" -> reinitElemPhys(x, elem, points, tid)
    [] op = "reinitNeighborPhys" -> reinitNeighborPhys(x, elem, points, tid)
    [] op = "reinitNeighborPhys2" -> reinitNeighborPhys2(x, elem, points, tid)
    [] op = "prepareNonlocal" -> prepareNonlocal(x, tid)
    [] op = "prepareBlockNonlocal" -> prepareBlockNonlocal(x, tid)
    [] op = "prepareAssembly" -> prepareAssembly(x, tid)
    [] op = "prepareAssemblyNeighbor" -> prepareAssemblyNeighbor(x, tid)
    [] op = "reinitNodes" -> reinitNodes(x, tid)
    [] op = "reinitNodesNeighbor" -> reinitNodesNeighbor(x, tid)
    [] op = "reinitScalars" -> reinitScalars(x, tid)
    [] op = "reinitOffDiagScalars" -> reinitOffDiagScalars(x, tid)
    [] OTHER -> forward(x, tid, op)

\* A thread calls one of the entry points ops.
ThreadEntry(ops) ==
  \E op \in ops, elem \in ThreadElems, node \in ThreadNodes,
     points \in PhysicalPoints, tid \in Tids :
    ThreadCall(op, tid,
               entry_point(op, enter_thread(threads), world.mproblem,
                           elem, node, points, tid))

\* Worker threads call the per-thread entry points in any order.
NextThreads ==
  \/ ReinitDirac
  \/ ThreadEntry(ElementEntryPoints)
  \/ ThreadEntry(ThreadEntryPoints)
  \/ ThreadEntry(DOMAIN AssemblyForwarders)

SpecThreads == Init /\ [][NextThreads]_vars

\* ------------------------------------------------- prepare and the Jacobian
\* The reference problem gets (or drops) its Jacobian.
MProblemSetHasJacobian ==
  /\ world' = [world EXCEPT !.mproblem.has_jacobian = ~@]
  /\ lastCall' = [op |-> "mproblem"]
  /\ UNCHANGED otherThanWorld

\* The reference problem's Jacobian is declared constant (or no longer so).
MProblemSetConstJacobian ==
  /\ world' = [world EXCEPT !.mproblem.const_jacobian = ~@]
  /\ lastCall' = [op |-> "mproblem"]
  /\ UNCHANGED otherThanWorld

NextPrepare ==
  \/ MProblemSetHasJacobian
  \/ MProblemSetConstJacobian
  \/ ThreadEntry({"prepare"})
  \/ ThreadEntry({"prepare_block", "reinitElem"})

SpecPrepare == Init /\ [][NextPrepare]_vars

\* ------------------------------------------------- the per-element cycle
\* The cycle of one thread; what threads do to each other is SpecThreads.
CycleTid == CHOOSE tid \in Tids : TRUE

\* The thread calls one of the entry points ops for an element; before is
\* the thread's state and previous the step it had taken last.
CycleEntry(ops) ==
  \E op \in ops, elem \in Elems, node \in ThreadNodes,
     points \in PhysicalPoints :
    /\ threads' = entry_point(op, enter_thread(threads), world.mproblem,
                              elem, node, points, CycleTid)
    /\ lastCall' = [op |-> op, tid |-> CycleTid, elem |-> elem,
                     before |-> threads.th[CycleTid],
                     previous |-> lastCall.op]
    /\ UNCHANGED otherThanThreads

\* The kernels of the element the thread is on are evaluated.
KernelCompute ==
  /\ threads.th[CycleTid].assembly.elem # "none"
  /\ threads' = kernel_compute(enter_thread(threads), CycleTid)
  /\ lastCall' = [op |-> "kernels", tid |-> CycleTid]
  /\ UNCHANGED otherThanThreads

NextCycle ==
  \/ MProblemSetHasJacobian
  \/ MProblemSetConstJacobian
  \/ CycleEntry({"prepare", "prepare_block"})
  \/ CycleEntry({"reinitElemFace", "reinitNeighbor"})
  \/ KernelCompute
  \/ CycleEntry({"cacheResidual", "cacheJacobian"})
  \/ CycleEntry({"addResidual", "addJacobian", "addCachedResidual",
                 "addCachedJacobian"})

SpecCycle == Init /\ [][NextCycle]_vars

\* ------------------------------------ entry points acting on both systems
SaveOldSolutions ==
  /\ dp' = saveOldSolutions(enter(dp))
  /\ lastCall' = [op |-> "saveOldSolutions"]
  /\ UNCHANGED <<mproblem, par>>
  /\ UNCHANGED nonMeshVars

RestoreOldSolutions ==
  /\ dp' = restoreOldSolutions(enter(dp))
  /\ lastCall' = [op |-> "restoreOldSolutions"]
  /\ UNCHANGED <<mproblem, par>>
  /\ UNCHANGED nonMeshVars

InitProblem ==
  /\ threads' = init(enter_thread(threads))
  /\ lastCall' = [op |-> "init()"]
  /\ UNCHANGED otherThanThreads

\* A Dirac kernel registers its point in the element the threads work on.
AddFirstDiracPoint ==
  /\ threads.dirac = <<>>
  /\ threads' = dirac_addPoint(threads, "e1", "p1")
  /\ lastCall' = [op |-> "addPoint"]
  /\ UNCHANGED otherThanThreads

\* The per-thread entry points that act on the displaced systems.
SystemEntryPoints ==
  (ElementEntryPoints \ {"setCurrentSubdomainID", "setNeighborSubdomainID"})
    \cup {"reinitNodes", "reinitNodesNeighbor", "reinitScalars"}

NextOrder ==
  \/ AddFirstDiracPoint
  \/ ReinitDirac
  \/ ThreadEntry(SystemEntryPoints)
  \/ InitProblem
  \/ SyncSolutions
  \/ SaveOldSolutions
  \/ RestoreOldSolutions

SpecOrder == Init /\ [][NextOrder]_vars

\* ------------------------------------------------------- coupled problem
otherThanCoupled == <<meshVars, tags, world, threads>>

\* Solve orders a driver can declare: sequences of distinct names.
SolveOrders ==
  {order \in UNION {[1..n -> SubNames] : n \in 0..Cardinality(SubNames)} :
     \A i, j \in 1..Len(order) : i # j => order[i] # order[j]}

AddSubProblem ==
  \E name \in SubNames :
    /\ ~coupled.fatal
    /\ coupled' = addSubProblem(coupled, name)
    /\ lastCall' = [op |-> "addSubProblem", name |-> name]
    /\ UNCHANGED otherThanCoupled

SolveOrder ==
  \E solve_order \in SolveOrders :
    /\ ~coupled.fatal
    /\ coupled' = solveOrder(coupled, solve_order)
    /\ lastCall' = [op |-> "solveOrder", solve_order |-> solve_order,
                     registered |-> DOMAIN coupled.subproblems,
                     previous |-> coupled.solve_order]
    /\ UNCHANGED otherThanCoupled

Update ==
  /\ ~coupled.fatal
  /\ coupled' = update(coupled)
  /\ lastCall' = [op |-> "update"]
  /\ UNCHANGED otherThanCoupled

NextCoupled ==
  \/ AddSubProblem
  \/ SolveOrder
  \/ Update

SpecCoupled == Init /\ [][NextCoupled]_vars

\* The driver assigns through the coupled problem's accessor.
ClockWrite(who, field, ref, v) ==
  /\ ~coupled.fatal
  /\ coupled' = write_through(coupled, ref, v)
  /\ lastCall' = [op |-> "write", who |-> who, field |-> field, value |-> v]
  /\ UNCHANGED otherThanCoupled

DriverSetTime ==
  \E v \in ClockValues : ClockWrite("driver", "time", time(coupled), v)

DriverSetTimeStep ==
  \E v \in ClockValues : ClockWrite("driver", "t_step", timeStep(coupled), v)

DriverSetDt ==
  \E v \in ClockValues : ClockWrite("driver", "dt", dt(coupled), v)

\* A registered sub-problem assigns through its own accessor.
SubProblemSetClock ==
  \E name \in DOMAIN coupled.subproblems, field \in ClockFields,
     v \in ClockValues :
    ClockWrite(name, field, subproblem_accessor(coupled, name, field), v)

NextClock ==
  \/ AddSubProblem
  \/ DriverSetTime
  \/ DriverSetTimeStep
  \/ DriverSetDt
  \/ SubProblemSetClock

SpecClock == Init /\ [][NextClock]_vars

\* ------------------------------------------------------------------ claims
UpdateOps == {"updateMesh", "updateMesh2"}
SyncEvents == <<"nl.solution=", "aux.solution=", "nl.update", "aux.update">>
RepairEvents == {"ref.allgather", "ref.gather_to_zero"}

\* The source of the last call: the reference problem's current solution
\* (unchanged since the call returned) or the supplied vectors.
LastNl == IF "soln" \in DOMAIN lastCall THEN lastCall.soln ELSE mproblem.nl
LastAux == IF "aux_soln" \in DOMAIN lastCall THEN lastCall.aux_soln ELSE mproblem.aux

\* C1: after every updateMesh call, in either form and whatever calls came
\* before, every node is at its reference coordinate plus the displacement
\* value of the solution just synchronized; offsets never accumulate.
C1_UpdateMeshDisplaces ==
  lastCall.op \in UpdateOps =>
    \A n \in Nodes : dp.coord[n] = reference_node(n) + LastNl[n]

\* The scenario {0,1,2} + {0,0.1,0.2} = {0,1.1,2.2}, from supplied vectors
\* that differ from the reference problem's current solution.
C1_Witness ==
  /\ lastCall.op = "updateMesh2"
  /\ lastCall.soln = [n \in Nodes |-> n - 1]
  /\ lastCall.soln # mproblem.nl
  /\ dp.coord = [n \in Nodes |-> 11 * (n - 1)]

\* C2: after undisplaceMesh(), whatever updateMesh calls came before, every
\* node of the displaced mesh, owned by this process or not, is at exactly
\* its reference coordinate.
C2_UndisplaceRestores ==
  lastCall.op = "undisplaceMesh" =>
    \A n \in Nodes : dp.coord[n] = reference_node(n)

\* undisplaceMesh() returned on a mesh whose last update had moved a node
\* that this process does not own.
C2_Witness ==
  /\ lastCall.op = "undisplaceMesh"
  /\ dp.geometric_search_data.built
  /\ \E n \in Nodes \ local_nodes :
       dp.geometric_search_data.coord[n] # reference_node(n)
  /\ dp.coord = RefCoords

\* C3: an updateMesh call synchronizes the solutions first, then displaces
\* every node, then updates the geometric search, then rebuilds the point
\* locator; the search and the locator are built from the displaced
\* coordinates, and the call does not return without them.
C3_UpdateMeshOrder ==
  lastCall.op \in UpdateOps =>
    LET k == Len(dp.log)
    IN /\ k >= 7
       /\ SubSeq(dp.log, 1, 4) = SyncEvents
       /\ \A i \in 5..(k - 3) : dp.log[i] \in RepairEvents
       /\ SubSeq(dp.log, k - 2, k) =
            <<"displace", "gsd.update", "updatePointLocator">>
       /\ \A n \in Nodes :
            dp.coord[n] = reference_node(n) + dp.displaced_nl.solution[n]
       /\ dp.geometric_search_data = [built |-> TRUE, coord |-> dp.coord]
       /\ dp.point_locator = [built |-> TRUE, coord |-> dp.coord]

\* updateMesh() returned with nodes moved, the search and the locator
\* built from the moved coordinates.
C3_Witness ==
  /\ lastCall.op = "updateMesh"
  /\ dp.coord # RefCoords
  /\ dp.geometric_search_data.coord = dp.coord
  /\ dp.point_locator.coord = dp.coord

\* C4: however parallel_reduce splits the node range and interleaves the
\* workers' per-node writes, every node is visited exactly once and the
\* coordinates on return are those of one sequential pass over all nodes;
\* the join changes nothing.
C4_ParallelEqualsSequential ==
  /\ par # NoPar =>
       /\ \A n \in Nodes :
            /\ par.visits[n] <= 1
            /\ dp.coord[n] =
                 IF par.visits[n] = 0 THEN par.start.coord[n]
                 ELSE IF par.op = "updateMesh"
                      THEN displace_pass(par.start, Mem, Nodes).coord[n]
                      ELSE undisplace_pass(par.start, Nodes).coord[n]
       /\ join(dp) = dp
  /\ (par = NoPar /\ lastCall.op \in {"updateMesh", "undisplaceMesh"}) =>
       /\ \A n \in Nodes : lastCall.visits[n] = 1
       /\ dp.coord = lastCall.sequential

\* updateMesh() returned after a pass split into one subrange per node,
\* with nodes moved.
C4_Witness ==
  /\ par = NoPar
  /\ lastCall.op = "updateMesh"
  /\ lastCall.nchunks = NumNodes
  /\ dp.coord # RefCoords
  /\ dp.coord = lastCall.sequential

\* C5: after syncSolutions the displaced nonlinear and auxiliary solutions
\* equal the reference problem's current solutions (the supplied vectors,
\* for the two-argument form), and the two update() calls ran after both
\* copies, so the cached views hold the copied values.
C5_SyncCopies ==
  lastCall.op \in {"syncSolutions", "syncSolutions2"} =>
    /\ dp.displaced_nl.solution = LastNl
    /\ dp.displaced_aux.solution = LastAux
    /\ dp.displaced_nl.current_local_solution = LastNl
    /\ dp.displaced_aux.current_local_solution = LastAux
    /\ dp.log = SyncEvents

\* syncSolutions(soln, aux_soln) returned with vectors that differ from
\* the reference problem's current solutions.
C5_Witness ==
  /\ lastCall.op = "syncSolutions2"
  /\ lastCall.soln # mproblem.nl
  /\ lastCall.aux_soln # mproblem.aux
  /\ lastCall.soln # ZeroNl
  /\ dp.displaced_nl.solution = lastCall.soln
  /\ dp.displaced_aux.solution = lastCall.aux_soln

\* C6: a second consecutive syncSolutions with the same source leaves the
\* displaced systems (solutions and cached views) as the first call left
\* them, and no syncSolutions call changes the node coordinates, the
\* geometric search or the point locator.
C6_SyncIdempotent ==
  /\ lastCall.op = "syncSolutions" =>
       LET again == syncSolutions(enter(dp), Mem)
       IN /\ again.displaced_nl = dp.displaced_nl
          /\ again.displaced_aux = dp.displaced_aux
  /\ lastCall.op = "syncSolutions2" =>
       LET again == syncSolutions2(enter(dp), MemWith(LastNl, LastAux))
       IN /\ again.displaced_nl = dp.displaced_nl
          /\ again.displaced_aux = dp.displaced_aux
  /\ \A soln \in NlVectors, aux_soln \in AuxVectors :
       LET m == MemWith(soln, aux_soln)
       IN \A once \in {syncSolutions(enter(dp), m), syncSolutions2(enter(dp), m)} :
            /\ once.coord = dp.coord
            /\ once.geometric_search_data = dp.geometric_search_data
            /\ once.point_locator = dp.point_locator

\* syncSolutions() returned on a displaced mesh whose coordinates come
\* from an earlier, different solution.
C6_Witness ==
  /\ lastCall.op = "syncSolutions"
  /\ dp.coord # RefCoords
  /\ dp.geometric_search_data.built
  /\ \E n \in Nodes :
       dp.coord[n] # reference_node(n) + dp.displaced_nl.solution[n]

TagIds == (-1)..Cardinality(TagNames)

\* C7: whatever tags were added through the DisplacedProblem or through
\* the reference problem, every tag query (ID by name, name by ID,
\* existence, count) answers the same through both, a tag keeps one ID
\* and is registered once, and the DisplacedProblem's own registry members
\* stay empty.
C7_TagDelegation ==
  /\ \A name \in TagNames :
       /\ getVectorTagID(tags, name) = registry_id(tags.mproblem.vector, name)
       /\ getMatrixTagID(tags, name) = registry_id(tags.mproblem.matrix, name)
       /\ matrixTagNameExists(tags, name) =
            (registry_id(tags.mproblem.matrix, name) # NoTag)
  /\ \A id \in TagIds :
       /\ vectorTagName(tags, id) = registry_name(tags.mproblem.vector, id)
       /\ vectorTagExists(tags, id) = registry_exists(tags.mproblem.vector, id)
       /\ matrixTagName(tags, id) = registry_name(tags.mproblem.matrix, id)
       /\ matrixTagExists(tags, id) = registry_exists(tags.mproblem.matrix, id)
  /\ numVectorTags(tags) = Len(tags.mproblem.vector)
  /\ numMatrixTags(tags) = Len(tags.mproblem.matrix)
  /\ \A reg \in {tags.mproblem.vector, tags.mproblem.matrix} :
       \A i, j \in 1..Len(reg) : reg[i] = reg[j] => i = j
  /\ tags.displaced = [vector |-> <<>>, matrix |-> <<>>]
  /\ lastCall.op = "addVectorTag" =>
       /\ lastCall.ret # NoTag
       /\ getVectorTagID(tags, lastCall.name) = lastCall.ret
       /\ mproblem_getVectorTagID(tags, lastCall.name) = lastCall.ret
       /\ vectorTagName(tags, lastCall.ret) = lastCall.name
  /\ lastCall.op = "addMatrixTag" =>
       /\ lastCall.ret # NoTag
       /\ getMatrixTagID(tags, lastCall.name) = lastCall.ret
       /\ mproblem_getMatrixTagID(tags, lastCall.name) = lastCall.ret
       /\ matrixTagName(tags, lastCall.ret) = lastCall.name

\* A tag added through the DisplacedProblem after another one was added
\* through the reference problem: the second ID, seen through both.
C7_Witness ==
  /\ lastCall.op = "addVectorTag"
  /\ lastCall.through = "displaced"
  /\ lastCall.ret = 1
  /\ Len(tags.mproblem.vector) = 2
  /\ Len(tags.mproblem.matrix) = 1

DiracReinitEvents ==
  <<"assembly.reinitAtPhysical", "nl.prepare", "aux.prepare",
    "nl.reinitElem", "aux.reinitElem">>

\* C8: reinitDirac(elem, tid) on an element with no registered Dirac point
\* returns false, calls neither reinitAtPhysical nor a FieldSystem prepare
\* or element reinit and leaves the thread's state as it was; on an element
\* with registered points it returns true, the Assembly of thread tid is on
\* elem at exactly the registered points, and after that both displaced
\* systems were prepared and the element reinit ran on both.
C8_ReinitDiracGating ==
  lastCall.op = "reinitDirac" =>
    LET tid == lastCall.tid
        elem == lastCall.elem
        pts == lastCall.registered
        log == threads.log
    IN IF Len(pts) = 0
       THEN /\ lastCall.ret = FALSE
            /\ \A i \in 1..Len(log), j \in 1..Len(DiracReinitEvents) :
                 log[i] # DiracReinitEvents[j]
            /\ threads.th[tid] = lastCall.before
       ELSE /\ lastCall.ret = TRUE
            /\ threads.th[tid].assembly = [elem |-> elem, points |-> pts]
            /\ Len(log) >= Len(DiracReinitEvents)
            /\ SubSeq(log, 1, Len(DiracReinitEvents)) = DiracReinitEvents
            /\ threads.th[tid].nl = [prepared |-> elem, elem |-> elem]
            /\ threads.th[tid].aux = [prepared |-> elem, elem |-> elem]

\* A call on an element without points returned false on one thread while
\* another thread's Assembly is at the two points registered for its element.
C8_Witness ==
  /\ lastCall.op = "reinitDirac"
  /\ lastCall.ret = FALSE
  /\ lastCall.registered = <<>>
  /\ \E t \in Tids \ {lastCall.tid} :
       /\ Len(threads.th[t].assembly.points) = 2
       /\ threads.th[t].assembly.elem \in DOMAIN threads.dirac
       /\ threads.dirac[threads.th[t].assembly.elem] = threads.th[t].assembly.points

LookupOps ==
  {"getVariable", "getStandardVariable", "getVectorVariable",
   "getScalarVariable", "getSystem"}

Holds(sys, op, name) ==
  IF op = "getScalarVariable" THEN name \in sys.scalars ELSE name \in sys.vars

IsError(ret) == "error" \in DOMAIN ret

\* C9: a lookup (getVariable, getStandardVariable, getVectorVariable,
\* getScalarVariable, getSystem) returns the displaced primary system's
\* variable or system when that system holds the name, also when the
\* auxiliary system holds it too; else the auxiliary system's when that one
\* holds it; else it ends in an error and returns nothing.
C9_LookupOrder ==
  lastCall.op \in LookupOps =>
    LET nl == world.systems.displaced_nl
        aux == world.systems.displaced_aux
        ret == lastCall.ret
    IN IF Holds(nl, lastCall.op, lastCall.name)
       THEN /\ ~IsError(ret)
            /\ ret.system = "displaced_nl"
            /\ lastCall.op # "getSystem" =>
                 ret.var = lastCall.name /\ ret.tid = lastCall.tid
       ELSE IF Holds(aux, lastCall.op, lastCall.name)
            THEN /\ ~IsError(ret)
                 /\ ret.system = "displaced_aux"
                 /\ lastCall.op # "getSystem" =>
                      ret.var = lastCall.name /\ ret.tid = lastCall.tid
            ELSE IsError(ret)

\* A name held by both systems was looked up and the primary system's
\* variable came back.
C9_Witness ==
  /\ lastCall.op = "getStandardVariable"
  /\ lastCall.name \in world.systems.displaced_nl.vars
  /\ lastCall.name \in world.systems.displaced_aux.vars
  /\ ~IsError(lastCall.ret)
  /\ lastCall.ret.system = "displaced_nl"

\* isTransient, getCoordSystem and converged answer as the reference
\* problem does.
DelegatedQueries ==
  /\ lastCall.op = "isTransient" => lastCall.ret = world.mproblem.transient
  /\ lastCall.op = "getCoordSystem" =>
       lastCall.ret = world.mproblem.coord_sys[lastCall.sid]
  /\ lastCall.op = "converged" => lastCall.ret = world.mproblem.converged

\* C10 as stated: hasVariable(name) returns what the reference problem's
\* hasVariable(name) returns, and isTransient, getCoordSystem and converged
\* return the reference problem's answers.
C10_IdentityDelegates ==
  /\ lastCall.op = "hasVariable" =>
       lastCall.ret = (lastCall.name \in world.mproblem.vars)
  /\ DelegatedQueries

\* C10 as amended: hasVariable(name) is true exactly when the displaced
\* primary or the displaced auxiliary system holds a field variable of that
\* name, whatever the reference problem holds; isTransient, getCoordSystem
\* and converged return the reference problem's answers.
C10_IdentityOwnSystems ==
  /\ lastCall.op = "hasVariable" =>
       lastCall.ret = (lastCall.name \in world.systems.displaced_nl.vars
                                          \cup world.systems.displaced_aux.vars)
  /\ DelegatedQueries

\* hasVariable answered true for a name only the displaced auxiliary system
\* holds, with the reference problem transient and holding another name.
C10_Witness ==
  /\ lastCall.op = "hasVariable"
  /\ lastCall.ret = TRUE
  /\ lastCall.name \notin world.mproblem.vars
  /\ lastCall.name \notin world.systems.displaced_nl.vars
  /\ world.mproblem.vars # {}
  /\ world.mproblem.transient

Logged(log, events) == {i \in 1..Len(log) : log[i] \in events}

\* C11 as stated: updateMesh() issues the repair collective only if the
\* reference mesh is replicated on every process and the displaced mesh is
\* not, and then the displaced mesh is replicated to match; in every other
\* combination no collective is issued and the reference mesh's distribution
\* is left unchanged.
C11_RepairsDisplacedMesh ==
  lastCall.op = "updateMesh" =>
    IF is_serial(lastCall.ref_mesh) /\ ~is_serial(lastCall.mesh)
    THEN /\ dp.mesh = "serial"
         /\ dp.ref_mesh = lastCall.ref_mesh
         /\ Logged(dp.log, CollectiveEvents) # {}
    ELSE /\ Logged(dp.log, CollectiveEvents) = {}
         /\ dp.ref_mesh = lastCall.ref_mesh

\* C11 as amended: updateMesh() issues a repair collective only if the
\* displaced mesh is serialized (replicated on every process, or gathered on
\* process 0) and the reference mesh is not, and then the reference mesh is
\* gathered to match (allgather, respectively gather_to_zero); in every other
\* combination no collective is issued and the reference mesh's distribution
\* is left unchanged; the displaced mesh's distribution is never changed.
C11_RepairsReferenceMesh ==
  lastCall.op = "updateMesh" =>
    /\ dp.mesh = lastCall.mesh
    /\ IF is_serial(lastCall.mesh) /\ ~is_serial(lastCall.ref_mesh)
       THEN /\ dp.ref_mesh = "serial"
            /\ Logged(dp.log, {"ref.allgather"}) # {}
            /\ Cardinality(Logged(dp.log, CollectiveEvents)) = 1
       ELSE IF is_serial_on_zero(lastCall.mesh)
                 /\ ~is_serial_on_zero(lastCall.ref_mesh)
            THEN /\ dp.ref_mesh = "serial_on_zero"
                 /\ Logged(dp.log, {"ref.gather_to_zero"}) # {}
                 /\ Cardinality(Logged(dp.log, CollectiveEvents)) = 1
            ELSE /\ Logged(dp.log, CollectiveEvents) = {}
                 /\ dp.ref_mesh = lastCall.ref_mesh

\* updateMesh() found the displaced mesh gathered on process 0 and the
\* reference mesh distributed, and gathered the reference mesh.
C11_Witness ==
  /\ lastCall.op = "updateMesh"
  /\ lastCall.mesh = "serial_on_zero"
  /\ lastCall.ref_mesh = "distributed"
  /\ dp.ref_mesh = "serial_on_zero"
  /\ dp.mesh = "serial_on_zero"

SizedOps == {"syncSolutions", "syncSolutions2", "updateMesh", "updateMesh2"}

C13_ThreadIsolation ==
  /\ DOMAIN threads.th = Tids
  /\ "others" \in DOMAIN lastCall =>
       /\ threads.touched \subseteq {lastCall.tid}
       /\ \A u \in Tids \ {lastCall.tid} :
            threads.th[u].assembly = lastCall.others[u].assembly

\* Thread 1 has reinitialized its Assembly on a face while the Assembly of
\* thread 0 stays at the physical points of an earlier call of that thread.
C13_Witness ==
  /\ lastCall.op = "reinitElemFace"
  /\ lastCall.tid = 1
  /\ threads.touched = {1}
  /\ threads.th[1].assembly = [elem |-> "e1", points |-> <<>>]
  /\ threads.th[0].assembly = [elem |-> "e1", points |-> <<"p1">>]

\* C20: prepare(elem, tid) calls Assembly[tid].reinit(elem), then prepares
\* the displaced primary and the displaced auxiliary system, then calls
\* prepareJacobianBlock unless the reference problem has a Jacobian and
\* declares it constant, and last always calls prepareResidual.
C20_PrepareSkipsConstantJacobian ==
  lastCall.op = "prepare" =>
    LET tid == lastCall.tid
        skip == world.mproblem.has_jacobian /\ world.mproblem.const_jacobian
    IN /\ threads.log =
            IF skip
            THEN <<"assembly.reinit", "nl.prepare", "aux.prepare",
                   "assembly.prepareResidual">>
            ELSE <<"assembly.reinit", "nl.prepare", "aux.prepare",
                   "assembly.prepareJacobianBlock", "assembly.prepareResidual">>
       /\ threads.th[tid].assembly.elem \in ThreadElems
       /\ threads.th[tid].assembly.points = <<>>
       /\ threads.th[tid].nl.prepared = threads.th[tid].assembly.elem
       /\ threads.th[tid].aux.prepared = threads.th[tid].assembly.elem

\* prepare was called while the reference problem had a constant Jacobian,
\* and the block preparation was skipped.
C20_Witness ==
  /\ lastCall.op = "prepare"
  /\ world.mproblem.has_jacobian
  /\ world.mproblem.const_jacobian
  /\ Logged(threads.log, {"assembly.prepareJacobianBlock"}) = {}
  /\ Logged(threads.log, {"assembly.prepareResidual"}) # {}

ReinitForwarders ==
  {"reinitElem", "reinitElemFace", "reinitNode", "reinitNodeFace",
   "reinitNeighbor", "reinitElemPhys", "reinitNeighborPhys",
   "reinitNeighborPhys2"}

\* Assembly calls that recompute shape-function and quadrature data.
AssemblyReinitEvents ==
  {"assembly.reinit", "assembly.reinitAtPhysical",
   "assembly.reinitElemAndNeighbor", "assembly.reinitNeighborAtPhysical"}

\* Reinitializations of a displaced system.
SystemReinitEvents ==
  {"nl.reinitElem", "aux.reinitElem", "nl.reinitElemFace", "aux.reinitElemFace",
   "nl.reinitNode", "aux.reinitNode", "nl.reinitNodeFace", "aux.reinitNodeFace",
   "nl.reinitNeighborFace", "aux.reinitNeighborFace",
   "nl.reinitNeighbor", "aux.reinitNeighbor"}

\* The call recomputed the calling thread's Assembly first and
\* reinitialized both displaced systems only after that.
AssemblyThenSystems ==
  /\ threads.touched = {lastCall.tid}
  /\ Len(threads.log) > 0
  /\ threads.log[1] \in AssemblyReinitEvents
  /\ Logged(threads.log, SystemReinitEvents) # {}
  /\ \A j \in Logged(threads.log, SystemReinitEvents) :
       \E i \in Logged(threads.log, AssemblyReinitEvents) : i < j

\* C18 as stated: every reinitialization forwarder (reinitElem,
\* reinitElemFace, reinitNode, reinitNodeFace, reinitNeighbor, reinitElemPhys,
\* reinitNeighborPhys) first recomputes the calling thread's Assembly and
\* only then reinitializes the displaced systems; none reinitializes the
\* systems without having recomputed the Assembly in the same call.
C18_EveryForwarderRecomputesAssembly ==
  lastCall.op \in ReinitForwarders => AssemblyThenSystems

\* C18 as amended: every reinitialization forwarder other than reinitElem
\* first recomputes the calling thread's Assembly and only then
\* reinitializes the displaced systems; reinitElem reinitializes the primary
\* and then the auxiliary system and reaches no Assembly.
C18_ForwardersButReinitElem ==
  /\ lastCall.op \in ReinitForwarders \ {"reinitElem"} => AssemblyThenSystems
  /\ lastCall.op = "reinitElem" =>
       /\ threads.touched = {}
       /\ threads.log = <<"nl.reinitElem", "aux.reinitElem">>

\* reinitNeighborPhys recomputed the neighbor data of the thread's Assembly
\* at the physical points and reinitialized both systems afterwards.
C18_Witness ==
  /\ lastCall.op = "reinitNeighborPhys"
  /\ threads.touched = {lastCall.tid}
  /\ threads.log = <<"assembly.reinitNeighborAtPhysical",
                     "nl.prepareNeighbor", "aux.prepareNeighbor",
                     "assembly.prepareNeighbor",
                     "nl.reinitNeighborFace", "aux.reinitNeighborFace">>

\* The steps applied to both displaced systems: the primary system's call
\* and the auxiliary system's call of the same step.
SystemSteps ==
  {<<"nl.prepare", "aux.prepare">>,
   <<"nl.prepareFace", "aux.prepareFace">>,
   <<"nl.prepareNeighbor", "aux.prepareNeighbor">>,
   <<"nl.reinitElem", "aux.reinitElem">>,
   <<"nl.reinitElemFace", "aux.reinitElemFace">>,
   <<"nl.reinitNode", "aux.reinitNode">>,
   <<"nl.reinitNodeFace", "aux.reinitNodeFace">>,
   <<"nl.reinitNodes", "aux.reinitNodes">>,
   <<"nl.reinitNodesNeighbor", "aux.reinitNodesNeighbor">>,
   <<"nl.reinitNeighborFace", "aux.reinitNeighborFace">>,
   <<"nl.reinitNeighbor", "aux.reinitNeighbor">>,
   <<"nl.reinitScalars", "aux.reinitScalars">>,
   <<"nl.solution=", "aux.solution=">>,
   <<"nl.update", "aux.update">>,
   <<"nl.saveOldSolutions", "aux.saveOldSolutions">>,
   <<"nl.restoreOldSolutions", "aux.restoreOldSolutions">>,
   <<"nl.attach_extra_send_list_function",
     "aux.attach_extra_send_list_function">>,
   <<"nl.init", "aux.init">>}

BothSystemOps ==
  {"prepare", "prepareFace", "prepare_block", "reinitDirac", "reinitElem",
   "reinitElemPhys", "reinitElemFace", "reinitNode", "reinitNodeFace",
   "reinitNodes", "reinitNodesNeighbor", "reinitNeighbor",
   "reinitNeighborPhys", "reinitNeighborPhys2", "reinitScalars", "init()",
   "syncSolutions", "saveOldSolutions", "restoreOldSolutions"}

\* The log of the last call: the mesh-level entry points write the
\* DisplacedProblem's log, the per-thread ones and init the threads' log.
CallLog ==
  IF lastCall.op \in {"syncSolutions", "saveOldSolutions", "restoreOldSolutions"}
  THEN dp.log
  ELSE threads.log

\* In log, every step the auxiliary system receives was received by the
\* primary system before, and both systems receive each step equally often.
PrimaryBeforeAuxiliary(log) ==
  \A p \in SystemSteps :
    /\ Cardinality(Logged(log, {p[1]})) = Cardinality(Logged(log, {p[2]}))
    /\ \A j \in Logged(log, {p[2]}) :
         Cardinality({i \in Logged(log, {p[1]}) : i < j})
           >= Cardinality({k \in Logged(log, {p[2]}) : k <= j})

\* C19: in every entry point that acts on both displaced systems, each step
\* applied to the primary system comes before the same step applied to the
\* auxiliary system, and both systems receive the step in the call; only a
\* reinitDirac on an element without points applies no step at all.
C19_PrimaryBeforeAuxiliary ==
  lastCall.op \in BothSystemOps =>
    /\ PrimaryBeforeAuxiliary(CallLog)
    /\ (lastCall.op = "reinitDirac" /\ ~lastCall.ret)
         \/ \E p \in SystemSteps : Logged(CallLog, {p[1]}) # {}

\* reinitDirac on an element with a point prepared and reinitialized the
\* primary system before the auxiliary one.
C19_Witness ==
  /\ lastCall.op = "reinitDirac"
  /\ lastCall.ret
  /\ threads.log = <<"assembly.reinitAtPhysical", "nl.prepare", "aux.prepare",
                     "nl.reinitElem", "aux.reinitElem", "assembly.prepare">>
  /\ dp.log = <<"nl.restoreOldSolutions", "aux.restoreOldSolutions">>

\* ---------------------------------------------------------------- C16
GeometryOps == {"updateMesh", "updateMesh2", "undisplaceMesh", "meshChanged"}

\* Both derived structures have been built from the coordinates the displaced
\* mesh has now.
DerivedFresh ==
  /\ dp.point_locator = [built |-> TRUE, coord |-> dp.coord]
  /\ dp.geometric_search_data = [built |-> TRUE, coord |-> dp.coord]

\* C16 as stated: after updateMesh (both forms), undisplaceMesh and
\* meshChanged return, the point locator and the geometric search data have
\* been rebuilt from the coordinates the displaced mesh has at that moment.
C16_NeverStale ==
  lastCall.op \in GeometryOps => DerivedFresh

\* C16 amended: after updateMesh (both forms) and meshChanged return, the
\* point locator and the geometric search data have been rebuilt from the
\* coordinates the displaced mesh has at that moment; undisplaceMesh moves
\* the nodes and leaves both structures as they were before the call.
C16_FreshExceptUndisplace ==
  /\ lastCall.op \in GeometryOps \ {"undisplaceMesh"} => DerivedFresh
  /\ lastCall.op = "undisplaceMesh" =>
       /\ dp.coord = RefCoords
       /\ dp.point_locator = lastCall.point_locator
       /\ dp.geometric_search_data = lastCall.geometric_search_data

\* undisplaceMesh has moved nodes back under structures that an earlier
\* updateMesh built from the displaced coordinates.
C16_Witness ==
  /\ lastCall.op = "undisplaceMesh"
  /\ dp.point_locator.built
  /\ dp.geometric_search_data.built
  /\ dp.point_locator.coord # dp.coord
  /\ dp.geometric_search_data.coord # dp.coord

\* ---------------------------------------------------------------- C14
\* C14: with the sub-problems registered in any order, update() invokes the
\* sub-problems' step in exactly the sequence of the solve order, each listed
\* sub-problem once, whatever the key order of the registry is.
C14_UpdateFollowsSolveOrder ==
  lastCall.op = "update" =>
    /\ coupled.log = coupled.solve_order
    /\ \A name \in SubNames :
         Cardinality({i \in 1..Len(coupled.log) : coupled.log[i] = name})
           = IF \E i \in 1..Len(coupled.solve_order) :
                   coupled.solve_order[i] = name
             THEN 1 ELSE 0

\* update() ran three sub-problems whose solve order is neither the key order
\* nor the order of registration.
C14_Witness ==
  /\ lastCall.op = "update"
  /\ Len(coupled.solve_order) = 3
  /\ coupled.solve_order # KeyOrder
  /\ coupled.solve_order # coupled.inserted
  /\ coupled.inserted # KeyOrder
  /\ coupled.log = coupled.solve_order

\* ---------------------------------------------------------------- C15
NamesOf(order) == {order[i] : i \in 1..Len(order)}

\* C15: solveOrder ends in a fatal error exactly when a name of its argument
\* is not registered, nothing runs after the error, and otherwise the stored
\* order is the argument; every name of the stored order is registered.
C15_SolveOrderValidatedReplace ==
  /\ NamesOf(coupled.solve_order) \subseteq DOMAIN coupled.subproblems
  /\ coupled.fatal => lastCall.op = "solveOrder"
  /\ lastCall.op = "solveOrder" =>
       /\ coupled.fatal <=>
            ~(NamesOf(lastCall.solve_order) \subseteq lastCall.registered)
       /\ ~coupled.fatal => coupled.solve_order = lastCall.solve_order

\* A solve order has been replaced by another one that shares no name with
\* it.
C15_Witness ==
  /\ lastCall.op = "solveOrder"
  /\ ~coupled.fatal
  /\ lastCall.previous # << >>
  /\ lastCall.solve_order # << >>
  /\ NamesOf(lastCall.previous) \cap NamesOf(lastCall.solve_order) = {}
  /\ coupled.solve_order = lastCall.solve_order

\* ---------------------------------------------------------------- C17
\* What an observer reads for a field: the coupled problem through its own
\* accessor, a sub-problem through its own.
Observed(who, field) ==
  IF who = "coupled" THEN read_through(coupled, coupled.clock[field])
  ELSE read_through(coupled, subproblem_accessor(coupled, who, field))

Observers == {"coupled"} \cup DOMAIN coupled.subproblems

\* C17: whoever wrote time, step or dt last, the coupled problem and every
\* registered sub-problem read the same value of each, the written one.
C17_SharedClock ==
  /\ \A field \in ClockFields : \A o1, o2 \in Observers :
       Observed(o1, field) = Observed(o2, field)
  /\ lastCall.op = "write" =>
       \A o \in Observers : Observed(o, lastCall.field) = lastCall.value

\* A sub-problem has set a nonzero dt and the driver a nonzero time, with
\* two sub-problems registered.
C17_Witness ==
  /\ Cardinality(DOMAIN coupled.subproblems) >= 2
  /\ lastCall.op = "write"
  /\ lastCall.who \in SubNames
  /\ lastCall.field = "dt"
  /\ lastCall.value # 0
  /\ Observed("coupled", "time") # 0
  /\ \A o \in Observers : Observed(o, "dt") = lastCall.value

\* ---------------------------------------------------------------- C21
\* C21: meshChanged() reinitializes the equation systems, notifies the mesh,
\* rebuilds the point locator and then rebuilds the geometric search data in
\* full (reinit, not update), in this order and nothing else: no node is
\* moved and no solution is copied.
C21_MeshChangedSteps ==
  lastCall.op = "meshChanged" =>
    /\ dp.log = <<"eq.reinit", "mesh.meshChanged", "updatePointLocator",
                  "gsd.reinit">>
    /\ dp.coord = lastCall.coord
    /\ dp.displaced_nl = lastCall.displaced_nl
    /\ dp.displaced_aux = lastCall.displaced_aux
    /\ dp.point_locator = [built |-> TRUE, coord |-> dp.coord]
    /\ dp.geometric_search_data = [built |-> TRUE, coord |-> dp.coord]

\* meshChanged() has returned on a displaced mesh whose displaced systems
\* hold a nonzero solution that differs from the reference problem's.
C21_Witness ==
  /\ lastCall.op = "meshChanged"
  /\ dp.coord # RefCoords
  /\ dp.displaced_nl.solution # ZeroNl
  /\ dp.displaced_nl.solution # mproblem.nl
  /\ Len(dp.log) = 4

\* ---------------------------------------------------------------- C22
\* The serialization states updateMesh() leaves the two meshes in when it
\* finds them as the last call found them, and the collectives it issues.
RepairOfUpdateMesh ==
  updateMesh([enter(InitDP) EXCEPT !.mesh = lastCall.mesh,
                                   !.ref_mesh = lastCall.ref_mesh],
             Mem)

CollectivesIn(log) == SelectSeq(log, LAMBDA e : e \in CollectiveEvents)

\* C22: updateMesh(soln, aux_soln) applies the repair updateMesh() applies:
\* from the same serialization states of the two meshes it issues the same
\* collectives and leaves the two meshes in the same serialization states.
C22_BothFormsRepair ==
  lastCall.op = "updateMesh2" =>
    /\ dp.mesh = RepairOfUpdateMesh.mesh
    /\ dp.ref_mesh = RepairOfUpdateMesh.ref_mesh
    /\ CollectivesIn(dp.log) = CollectivesIn(RepairOfUpdateMesh.log)

\* ---------------------------------------------------------------- C24
\* C24: an updateMesh() call issues at most one repair collective and leaves
\* the meshes in no need of repair; as long as nothing but DisplacedProblem
\* changes a mesh's serialization state they stay so, and every later
\* updateMesh() call issues no collective.
C24_RepairOneTime ==
  /\ [](lastCall.op = "updateMesh" =>
          /\ Cardinality(Logged(dp.log, CollectiveEvents)) <= 1
          /\ ~needs_repair(dp)
          /\ lastCall.since_repair => Logged(dp.log, CollectiveEvents) = {})
  /\ [][(~needs_repair(dp) /\ lastCall'.op # "redistribute") =>
          /\ ~needs_repair(dp')
          /\ lastCall'.op = "updateMesh" =>
               Logged(dp'.log, CollectiveEvents) = {}]_vars

\* An updateMesh() call has followed one that gathered the reference mesh,
\* and has issued no collective.
C24_Witness ==
  /\ lastCall.op = "updateMesh"
  /\ lastCall.since_repair
  /\ lastCall.mesh = "serial_on_zero"
  /\ Logged(dp.log, CollectiveEvents) = {}

\* ---------------------------------------------------------------- C25
\* C25: reinitDirac(elem, tid) leaves the Dirac point registry as it was,
\* its set of elements and every element's point list, whether or not elem
\* has registered points.
C25_ReinitDiracReadsRegistry ==
  lastCall.op = "reinitDirac" =>
    /\ DOMAIN threads.dirac = DOMAIN lastCall.dirac
    /\ \A e \in DOMAIN lastCall.dirac : threads.dirac[e] = lastCall.dirac[e]

====
